---- MODULE Spec2Model ----
(***************************************************************************)
(* Lovecoin: swipe/match engine, paid message ledger, payment verifier,    *)
(* realtime hub and message pagination, modelled from the API sources.     *)
(*                                                                         *)
(* One module, several specifications; every specification drives one      *)
(* subsystem and leaves the state of the others at its initial value.      *)
(*   SpecMatch  - POST /discovery/like, POST /discovery/pass               *)
(*   SpecSocial - likes together with marketplace contact, unmatch, block  *)
(*   SpecVerify - the payment checks, applied to bounded transactions      *)
(*   SpecHub    - the realtime hub: connections, rooms, broadcast          *)
(*   SpecMsg    - POST /conversations/:id/messages, paid and free          *)
(*   SpecAccess - posting while the Match is unmatched or blocked          *)
(*   SpecPage   - GET /conversations/:id/messages while messages arrive    *)
(*   SpecClient - the web client's WebSocket hook: reconnects and rooms    *)
(*   FairClient - SpecClient where timers fire and sockets settle          *)
(*   SpecChat   - the conversation page's message list                     *)
(*   SpecChal   - login challenges: generateChallenge, verifyChallenge      *)
(*   SpecVerif  - GET /verification/payment-details, POST .../confirm      *)
(*   SpecRead   - PATCH /conversations/:id/read                            *)
(*   SpecLimiter - the rate limits of the routes                           *)
(*   SpecShop   - POST /listings/:id/purchase                              *)
(***************************************************************************)
EXTENDS Integers, Sequences, FiniteSets, TLC

VARIABLES
    swipes,         \* Swipe table: rows [id, fromUserId, toUserId, action]
    matches,        \* Match table: rows [id, userAId, userBId, isActive]
    conversations,  \* Conversation table: rows [id, matchId, lastMessageAt]
    rowSeq,         \* number of rows created so far (source of row ids)
    reqs            \* in-flight and completed HTTP requests of the match engine
                    \* (swipedBefore: history, a Swipe for the ordered pair
                    \* existed when the request arrived; inserted: history,
                    \* "none" while the request has stored no Swipe, "first"
                    \* when it stored one before the opposite LIKE existed,
                    \* "second" when the opposite LIKE was already stored;
                    \* afterUnmatch: history, the request arrived after an
                    \* unmatch of the pair's Match had completed;
                    \* blockedBefore: history, a Block row between the two
                    \* users existed when the request arrived)

VARIABLES
    vIn,            \* verifier under test: the call's arguments
    vOut            \* verifier under test: the results

VARIABLES
    socks,          \* per WebSocket: transport state, userId, rooms, handlers
    clients,        \* Map userId -> Set of sockets
    rooms,          \* Map roomName -> Set of sockets
    joins,          \* handleJoin calls suspended at their conversation lookup
                    \* (left: history, a leave frame of the same connection
                    \* for the same room was handled after the join frame,
                    \* and no join frame for it since)
    granted,        \* history: (socket, room) pairs whose participant check
                    \* found an active Match with the socket's user in it
    frames,         \* number of frames received so far
    hubIn,          \* the input the hub handled in the last step
    wsSent          \* per socket: the events sent to it in the last step

VARIABLES
    messages,       \* table Message
    posts,          \* POST /conversations/:id/messages requests: position
                    \* in the handler, parameters and the response
                    \* (usedBefore: history, a Message with the request's
                    \* signature existed when the request arrived; rpc:
                    \* history, what getTransaction gave the request: null,
                    \* a transaction that failed on-chain, or one that ran)
    now,            \* the clock, in milliseconds
    variant,        \* which conversations route file is deployed: the
                    \* paid one or the free one
    pager           \* a client paging a conversation backwards: position,
                    \* cursor, what it has been returned so far, and the
                    \* last response (page, nextCursor) with the cursor
                    \* that was asked

VARIABLES
    blocks,         \* table Block: rows [id, blockerId, blockedId]
    ops             \* requests to POST /listings/:id/contact, DELETE
                    \* /matches/:matchId and POST /users/:userId/block:
                    \* position in the handler, parameters and the response

VARIABLES
    cli,            \* the web client's useWebSocket hook: its refs, its
                    \* sockets, its timers, and the server's side of them
    chat            \* the conversation page: its view, and the requests
                    \* and events on their way to it

VARIABLES
    chal,           \* login challenges: the in-memory store, the clock, and
                    \* the last call to verifyChallenge
    verif,          \* fee verification: the users' isVerified and
                    \* verificationTx, and the requests to /verification
    reads,          \* read receipts: readAt of the messages of a
                    \* conversation and the last request about them
    limiter,        \* rate limiting: the counters of each bucket and key,
                    \* and the last request
    shop            \* marketplace purchases: table Purchase, the listings'
                    \* status, and the requests to /listings/:id/purchase

dbVars == <<swipes, matches, conversations, rowSeq>>
verifyVars == <<vIn, vOut>>
hubVars == <<socks, clients, rooms, joins, granted, frames, hubIn, wsSent>>
msgVars == <<messages, posts, now, variant>>
socialVars == <<blocks, ops>>
webVars == <<cli, chat>>
backVars == <<chal, verif, reads, limiter, shop>>
\* what the swipe/match engine never touches
notMatchVars == <<verifyVars, hubVars, msgVars, pager, socialVars, webVars, backVars>>
\* what the payment checks never touch
notVerifyVars == <<dbVars, reqs, hubVars, msgVars, pager, socialVars, webVars, backVars>>
\* what the realtime hub never touches
notHubVars == <<dbVars, reqs, verifyVars, msgVars, pager, socialVars, webVars, backVars>>
\* what posting a message never touches
notPostVars == <<swipes, matches, reqs, verifyVars,
                 socks, clients, rooms, joins, granted, frames, pager, socialVars,
                 webVars, backVars>>
\* what reading the messages of a conversation never touches
notPageVars == <<dbVars, reqs, verifyVars, hubVars, msgVars, socialVars, webVars, backVars>>
\* what contact, unmatch and block never touch
notSocialVars == <<swipes, reqs, verifyVars, hubVars, msgVars, pager, webVars, backVars>>
\* what the web client never touches
notWebVars == <<dbVars, reqs, verifyVars, hubVars, msgVars, pager, socialVars,
                backVars>>
\* what the login challenges, the fee verification, the read receipts, the
\* rate limiter and the purchases never touch
notBackVars == <<dbVars, reqs, verifyVars, hubVars, msgVars, pager, socialVars,
                 webVars>>
notChalVars == <<notBackVars, verif, reads, limiter, shop>>
notVerifVars == <<notBackVars, chal, reads, limiter, shop>>
notReadVars == <<notBackVars, chal, verif, limiter, shop>>
notLimiterVars == <<notBackVars, chal, verif, reads, shop>>
notShopVars == <<notBackVars, chal, verif, reads, limiter>>
vars == <<dbVars, reqs, verifyVars, hubVars, msgVars, pager, socialVars, webVars,
          backVars>>

----------------------------------------------------------------------------
(* Bounds *)

\* number of swipe requests (like or pass) issued in one behaviour
MaxReq == 2
\* number of instructions of a transaction handed to the payment checks
MaxInstr == 2
\* number of handleJoin calls suspended at the same time
MaxPending == 1
\* number of frames the clients send over all connections
MaxFrames == 2
\* the clock stops at MaxClock
MaxClock == 2
\* messages a conversation holds when paging starts
MaxHistory == 2
\* number of contact, unmatch and block requests issued in one behaviour
MaxOps == 2
\* number of calls the page makes to the hook (connect, disconnect, joinRoom,
\* leaveRoom) in one behaviour
MaxCalls == 3
\* number of connections the server accepts in one behaviour
MaxOpens == 2
\* number of sockets of the client alive at the same time
MaxLive == 3

\* conversation page: messages created while it is open, and polls it makes
MaxMsgs == 2
MaxPolls == 2

\* login challenges issued, and times the clock moves, in one behaviour
MaxNonces == 2
MaxTicks == 2

\* read receipts: messages sent, and PATCH /conversations/:id/read requests
MaxSent == 2
MaxMarks == 2

\* POST /verification/confirm requests
MaxConfirms == 2

\* rate limiting: routes that receive requests in one time window, and
\* time windows
MaxBusy == 2
MaxWindows == 2

\* POST /listings/:id/purchase requests
MaxBuys == 2

----------------------------------------------------------------------------
(* Users.  Ids are compared as the strings they are; the model keeps only   *)
(* their order.  User 4 exists but is not fee-verified, so the preHandler   *)
(* (authenticate + requireVerified) lets only users 1 to 3 issue requests.  *)

Users == {1, 2, 3, 4}
VerifiedUsers == {1, 2, 3}
NULL == "null"

\* prisma.user.findUnique({where: {id}, select: {isVerified, isSuspended}})
\* (the result as a set: empty when no row has this id)
FindUser(u) ==
    {[id |-> x, isVerified |-> x \in VerifiedUsers, isSuspended |-> FALSE] :
        x \in Users \cap {u}}

\* Row ids are generated by the store (cuid): strings of one fixed length,
\* here a letter and the digit of the row's creation number.
Digits == <<"0", "1", "2", "3", "4", "5", "6", "7", "8", "9">>
Cuid(n) == <<"c", Digits[(n % 10) + 1]>>
NoId == <<>>

\* two matches made before the behaviours of the ledger and of the hub
\* start: rows 1 and 3 are the Match rows, rows 2 and 4 their Conversations
ConvIdA == Cuid(2)
ConvIdB == Cuid(4)

\* (variant: the pair as given, unsorted)
SortPair_asGiven(a, b) == <<a, b>>

\* [a, b].sort(): the pair in ascending id order
SortPair(a, b) == IF a <= b THEN <<a, b>> ELSE <<b, a>>

----------------------------------------------------------------------------
(* Text.  Memos, ids and room names are strings whose content the code     *)
(* inspects (includes, startsWith, replace): sequences of characters.      *)

\* String.prototype.includes
Includes(str, sub) ==
    \E i \in 1..(Len(str) - Len(sub) + 1) :
        SubSeq(str, i, i + Len(sub) - 1) = sub

\* String.prototype.startsWith
StartsWith(str, pre) ==
    Len(str) >= Len(pre) /\ SubSeq(str, 1, Len(pre)) = pre

MsgPrefix == <<"M", "S", "G", ":">>
VerifyPrefix == <<"V", "E", "R", "I", "F", "Y", ":">>
EmptyStr == <<>>

\* the id of user u as text
UserIdStr(u) == <<"u", Digits[(u % 10) + 1]>>

----------------------------------------------------------------------------
(* Configuration *)

\* config.messageFeeLamports (MESSAGE_FEE_LAMPORTS, default)
MessageFeeLamports == 500000
\* config.verificationFeeLamports (VERIFICATION_FEE_LAMPORTS, default)
VerificationFeeLamports == 10000000
\* config.platformWalletAddress
PlatformWallet == "PLATFORM"
\* the wallet address in the session token of user u
WalletNames == <<"W1", "W2", "W3", "W4">>
WalletOf(u) == WalletNames[u]

----------------------------------------------------------------------------
(* Ledger transactions as getParsedTransaction returns them, and the       *)
(* extraction of the payment from one.                                     *)

MemoV2 == "MemoSq4gqABAXKb96qnH8TysNcWxMyWCqXgDLGmfcHr"
MemoV1 == "Memo1UhkJRfHyvLMcVucJwxXeuD728EqVDDwQDxFMNo"
memoPrograms == {MemoV2, MemoV1}

\* a parsed system-program transfer
Transfer(source, destination, lamports) ==
    [parsed |-> TRUE, program |-> "system", type |-> "transfer",
     source |-> source, destination |-> destination, lamports |-> lamports,
     memo |-> EmptyStr, programId |-> "", data |-> ""]
\* a parsed spl-memo instruction: its parsed value is the memo text
ParsedMemo(text) ==
    [parsed |-> TRUE, program |-> "spl-memo", type |-> "",
     source |-> "", destination |-> "", lamports |-> 0,
     memo |-> text, programId |-> "", data |-> ""]
\* a parsed instruction of another kind
OtherParsed ==
    [parsed |-> TRUE, program |-> "system", type |-> "createAccount",
     source |-> "", destination |-> "", lamports |-> 0,
     memo |-> EmptyStr, programId |-> "", data |-> ""]
\* an instruction the RPC did not parse: program id and data
Unparsed(programId, data) ==
    [parsed |-> FALSE, program |-> "", type |-> "",
     source |-> "", destination |-> "", lamports |-> 0,
     memo |-> EmptyStr, programId |-> programId, data |-> data]

\* Buffer.from(data, "base64").toString("utf-8"), for the data values used
Base64Utf8(data) ==
    CASE data = "TVNHOmMy"     -> MsgPrefix \o <<"c", "2">>
      [] data = "TVNHOmM0"     -> MsgPrefix \o <<"c", "4">>
      [] data = "VkVSSUZZOjE=" -> VerifyPrefix \o <<"1">>
      [] OTHER                 -> EmptyStr

\* a line of meta.logMessages: the text the memo regexp captures from it,
\* /Memo \(len \d+\): "(.+)"/, or no match (the capture is never empty)
LogMemoMatch(log) == log.hasMemoMarker /\ Len(log.quoted) >= 1

NoPayment ==
    [transferAmount |-> 0, sender |-> "", recipient |-> "", memo |-> EmptyStr]

\* (variant: the sender is that of the first transfer of the transaction)
ScanInstruction_firstSender(acc, ins) ==
    LET a1 == IF ins.parsed /\ ins.program = "system" /\ ins.type = "transfer"
                THEN [acc EXCEPT !.sender = IF acc.sender = "" THEN ins.source ELSE @,
                                 !.recipient = ins.destination,
                                 !.transferAmount = ins.lamports]
                ELSE acc
        a2 == IF ins.parsed /\ ins.program = "spl-memo"
                THEN [a1 EXCEPT !.memo = ins.memo]
                ELSE a1
    IN  IF ~ins.parsed /\ ins.programId \in memoPrograms
          THEN [a2 EXCEPT !.memo = Base64Utf8(ins.data)]
          ELSE a2

\* one pass of the loop over the instructions
ScanInstruction(acc, ins) ==
    LET a1 == IF ins.parsed /\ ins.program = "system" /\ ins.type = "transfer"
                THEN [acc EXCEPT !.sender = ins.source,
                                 !.recipient = ins.destination,
                                 !.transferAmount = ins.lamports]
                ELSE acc
        a2 == IF ins.parsed /\ ins.program = "spl-memo"
                THEN [a1 EXCEPT !.memo = ins.memo]
                ELSE a1
    IN  IF ~ins.parsed /\ ins.programId \in memoPrograms
          THEN [a2 EXCEPT !.memo = Base64Utf8(ins.data)]
          ELSE a2

RECURSIVE ScanInstructions(_, _)
ScanInstructions(acc, instructions) ==
    IF instructions = <<>>
      THEN acc
      ELSE ScanInstructions(ScanInstruction(acc, Head(instructions)),
                            Tail(instructions))

\* "Check log messages for memo if not found": the last matching line wins
RECURSIVE ScanLogs(_, _)
ScanLogs(memo, logs) ==
    IF logs = <<>>
      THEN memo
      ELSE ScanLogs(IF LogMemoMatch(Head(logs)) THEN Head(logs).quoted ELSE memo,
                    Tail(logs))

\* getTransaction returned null
NullTx == [found |-> FALSE, err |-> FALSE, instructions |-> <<>>, logMessages |-> <<>>]

\* (variant: the execution error of the transaction is not looked at)
TxFailed_ignored(tx) == FALSE

\* if (tx.meta?.err)
TxFailed(tx) == tx.err

\* sender, recipient, amount and memo as the handlers collect them
ExtractPayment(tx) ==
    LET acc == ScanInstructions(NoPayment, tx.instructions)
    IN  IF acc.memo = EmptyStr
          THEN [acc EXCEPT !.memo = ScanLogs(acc.memo, tx.logMessages)]
          ELSE acc

\* (variant: the amount is checked before the sender and the recipient)
VerificationChecks_amountFirst(p, expectedSender, expectedMemo) ==
    IF p.transferAmount < VerificationFeeLamports THEN "Amount too low"
    ELSE IF p.sender # expectedSender THEN "Sender mismatch"
    ELSE IF p.recipient # PlatformWallet THEN "Recipient must be platform wallet"
    ELSE IF ~Includes(p.memo, expectedMemo) THEN "Invalid memo"
    ELSE "valid"

\* (variant: the sender of the transfer is not compared)
VerificationChecks_anySender(p, expectedSender, expectedMemo) ==
    IF p.recipient # PlatformWallet THEN "Recipient must be platform wallet"
    ELSE IF p.transferAmount < VerificationFeeLamports THEN "Amount too low"
    ELSE IF ~Includes(p.memo, expectedMemo) THEN "Invalid memo"
    ELSE "valid"

\* verifyVerificationPayment: the four checks on the extracted payment
VerificationChecks(p, expectedSender, expectedMemo) ==
    IF p.sender # expectedSender THEN "Sender mismatch"
    ELSE IF p.recipient # PlatformWallet THEN "Recipient must be platform wallet"
    ELSE IF p.transferAmount < VerificationFeeLamports THEN "Amount too low"
    ELSE IF ~Includes(p.memo, expectedMemo) THEN "Invalid memo"
    ELSE "valid"

\* verifyVerificationPayment(signature, expectedSender, expectedUserId), given
\* what getTransaction returned for the signature (found = FALSE: null)
verifyVerificationPayment(tx, expectedSender, expectedUserId) ==
    IF ~tx.found
      THEN [valid |-> FALSE, error |-> "Transaction not found",
            sender |-> "", recipient |-> "", amount |-> 0, memo |-> EmptyStr]
    ELSE IF TxFailed(tx)
      THEN [valid |-> FALSE, error |-> "Transaction failed on-chain",
            sender |-> "", recipient |-> "", amount |-> 0, memo |-> EmptyStr]
    ELSE
      LET p == ExtractPayment(tx)
          verdict == VerificationChecks(p, expectedSender,
                                        VerifyPrefix \o UserIdStr(expectedUserId))
      IN  [valid |-> verdict = "valid",
           error |-> IF verdict = "valid" THEN NULL ELSE verdict,
           sender |-> p.sender, recipient |-> p.recipient,
           amount |-> p.transferAmount, memo |-> p.memo]

\* (variant: the memo is not checked)
MessageChecks_noMemo(p, walletAddress, expectedMemo) ==
    IF p.sender # walletAddress THEN "Sender mismatch"
    ELSE IF p.recipient # PlatformWallet THEN "Recipient must be platform wallet"
    ELSE IF p.transferAmount < MessageFeeLamports THEN "Insufficient payment"
    ELSE "valid"

\* POST /conversations/:id/messages (paid): the four checks on the payment
MessageChecks(p, walletAddress, expectedMemo) ==
    IF p.sender # walletAddress THEN "Sender mismatch"
    ELSE IF p.recipient # PlatformWallet THEN "Recipient must be platform wallet"
    ELSE IF p.transferAmount < MessageFeeLamports THEN "Insufficient payment"
    ELSE IF ~Includes(p.memo, expectedMemo) THEN "Invalid memo"
    ELSE "valid"

\* POST /conversations/:id/messages (paid): from the fetched transaction to
\* the decision to save the message
verifyMessagePayment(tx, walletAddress, id) ==
    IF ~tx.found
      THEN [valid |-> FALSE, error |-> "Transaction not found on-chain",
            sender |-> "", recipient |-> "", amount |-> 0, memo |-> EmptyStr]
    ELSE IF TxFailed(tx)
      THEN [valid |-> FALSE, error |-> "Transaction failed on-chain",
            sender |-> "", recipient |-> "", amount |-> 0, memo |-> EmptyStr]
    ELSE
      LET p == ExtractPayment(tx)
          verdict == MessageChecks(p, walletAddress, MsgPrefix \o id)
      IN  [valid |-> verdict = "valid",
           error |-> IF verdict = "valid" THEN NULL ELSE verdict,
           sender |-> p.sender, recipient |-> p.recipient,
           amount |-> p.transferAmount, memo |-> p.memo]

----------------------------------------------------------------------------
(* Storage: lookups and inserts of the relational store *)

\* (variant: the lookup keyed with the two ids exchanged)
FindSwipe_reversed(from, to) ==
    {s \in swipes : s.fromUserId = to /\ s.toUserId = from}

\* prisma.swipe.findUnique({where: {fromUserId_toUserId: {...}}})
FindSwipe(from, to) ==
    {s \in swipes : s.fromUserId = from /\ s.toUserId = to}

\* (variant: the action of the opposite swipe is not looked at)
FindLike_anyAction(from, to) ==
    {s \in swipes : s.fromUserId = from /\ s.toUserId = to}

\* prisma.swipe.findFirst({where: {fromUserId, toUserId, action: "LIKE"}})
FindLike(from, to) ==
    {s \in swipes : s.fromUserId = from /\ s.toUserId = to /\ s.action = "LIKE"}

\* prisma.match.findFirst({where: {OR: [{userAId: a, userBId: b}, {userAId: b, userBId: a}]}})
FindMatch(a, b) ==
    {m \in matches : \/ (m.userAId = a /\ m.userBId = b)
                     \/ (m.userAId = b /\ m.userBId = a)}

\* the compound unique key fromUserId_toUserId of Swipe
SwipeKeyFree(from, to) ==
    \A s \in swipes : ~(s.fromUserId = from /\ s.toUserId = to)

\* the uniqueness constraint of Match on the pair (userAId, userBId)
MatchKeyFree(a, b) ==
    \A m \in matches : ~(m.userAId = a /\ m.userBId = b)

\* (variant: the nested create left out)
NestedConversation_none(n) == {}

\* conversation: {create: {}} inside prisma.match.create: the Conversation
\* row written in the same statement as the Match row numbered n + 1
NestedConversation(n) ==
    {[id |-> Cuid(n + 2), matchId |-> Cuid(n + 1), lastMessageAt |-> 0]}

----------------------------------------------------------------------------
(* Requests of the swipe/match engine.  A request is at one of its awaits   *)
(* (pc) or done; every action below is one storage round trip together with *)
(* the synchronous code that follows it up to the next await.               *)

ReqIds == 1..MaxReq

IdleReq ==
    [pc |-> "idle", op |-> NULL, user |-> 0, target |-> 0,
     status |-> 0, error |-> NULL, isMatch |-> FALSE, matchId |-> NoId,
     swipedBefore |-> FALSE, inserted |-> "none", afterUnmatch |-> FALSE,
     blockedBefore |-> FALSE]

\* an unmatch of the Match of users a and b has completed
Unmatched(a, b) ==
    \E o \in DOMAIN ops :
        /\ ops[o].kind = "unmatch" /\ ops[o].status = 200
        /\ \E m \in FindMatch(a, b) : m.id = ops[o].matchId

Reply(r, status, error, isMatch, matchId) ==
    [reqs[r] EXCEPT !.pc = "done", !.status = status, !.error = error,
                    !.isMatch = isMatch, !.matchId = matchId]

\* the handler is entered: self check, then the first lookup is issued
\* (like: the target user; pass: the existing swipe)
SwipeFirstPc(op) == IF op = "LIKE" THEN "findTarget" ELSE "findSwipe"

StartSwipe(r, op, user, target) ==
    /\ reqs[r].pc = "idle"
    /\ \A q \in ReqIds : q < r => reqs[q].pc # "idle"
    /\ LET started == [reqs[r] EXCEPT !.op = op, !.user = user, !.target = target,
                                      !.swipedBefore =
                                          \E s \in swipes : /\ s.fromUserId = user
                                                            /\ s.toUserId = target,
                                      !.afterUnmatch = Unmatched(user, target),
                                      !.blockedBefore =
                                          \E b \in blocks :
                                              {b.blockerId, b.blockedId} = {user, target}]
       IN  reqs' = [reqs EXCEPT ![r] =
                IF user = target
                  THEN [started EXCEPT !.pc = "done", !.status = 400,
                                       !.error = IF op = "LIKE" THEN "Cannot like yourself"
                                                  ELSE "Cannot pass yourself"]
                  ELSE [started EXCEPT !.pc = SwipeFirstPc(op)]]
    /\ UNCHANGED dbVars
    /\ UNCHANGED notMatchVars

\* like only: target user exists, is verified and not suspended
LikeFindTarget(r) ==
    /\ reqs[r].pc = "findTarget"
    /\ LET targetUser == FindUser(reqs[r].target)
       IN  reqs' = [reqs EXCEPT ![r] =
                IF \/ targetUser = {}
                   \/ \E t \in targetUser : ~t.isVerified \/ t.isSuspended
                  THEN Reply(r, 404, "User not found", FALSE, NoId)
                  ELSE [reqs[r] EXCEPT !.pc = "findSwipe"]]
    /\ UNCHANGED dbVars
    /\ UNCHANGED notMatchVars

\* "Check if already swiped"
SwipeFindExisting(r) ==
    /\ reqs[r].pc = "findSwipe"
    /\ reqs' = [reqs EXCEPT ![r] =
            IF FindSwipe(reqs[r].user, reqs[r].target) # {}
              THEN Reply(r, 400, "Already swiped on this user", FALSE, NoId)
              ELSE [reqs[r] EXCEPT !.pc = "createSwipe"]]
    /\ UNCHANGED dbVars
    /\ UNCHANGED notMatchVars

\* prisma.swipe.create; a violated unique key makes the create throw (500)
SwipeCreate(r) ==
    /\ reqs[r].pc = "createSwipe"
    /\ IF SwipeKeyFree(reqs[r].user, reqs[r].target)
         THEN /\ swipes' = swipes \cup
                     {[id |-> Cuid(rowSeq + 1), fromUserId |-> reqs[r].user,
                       toUserId |-> reqs[r].target, action |-> reqs[r].op]}
              /\ rowSeq' = rowSeq + 1
              /\ reqs' = [reqs EXCEPT ![r] =
                     [(IF reqs[r].op = "LIKE"
                         THEN [reqs[r] EXCEPT !.pc = "findMutual"]
                         ELSE Reply(r, 200, NULL, FALSE, NoId))
                      EXCEPT !.inserted =
                          IF FindLike(reqs[r].target, reqs[r].user) # {}
                            THEN "second" ELSE "first"]]
         ELSE /\ reqs' = [reqs EXCEPT ![r] =
                     Reply(r, 500, "Unique constraint failed", FALSE, NoId)]
              /\ UNCHANGED <<swipes, rowSeq>>
    /\ UNCHANGED <<matches, conversations>>
    /\ UNCHANGED notMatchVars

\* "Check for mutual like (match)"
LikeFindMutual(r) ==
    /\ reqs[r].pc = "findMutual"
    /\ reqs' = [reqs EXCEPT ![r] =
            IF FindLike(reqs[r].target, reqs[r].user) # {}
              THEN [reqs[r] EXCEPT !.pc = "findMatch"]
              ELSE Reply(r, 200, NULL, FALSE, NoId)]
    /\ UNCHANGED dbVars
    /\ UNCHANGED notMatchVars

\* "Check if match already exists (shouldn't happen but be safe)"
LikeFindMatch(r) ==
    /\ reqs[r].pc = "findMatch"
    /\ reqs' = [reqs EXCEPT ![r] =
            IF FindMatch(reqs[r].user, reqs[r].target) # {}
              THEN Reply(r, 200, NULL, FALSE, NoId)
              ELSE [reqs[r] EXCEPT !.pc = "createMatch"]]
    /\ UNCHANGED dbVars
    /\ UNCHANGED notMatchVars

\* prisma.match.create({data: {userAId, userBId, conversation: {create: {}}}}):
\* Match and Conversation are inserted in one statement, or neither is
LikeCreateMatch(r) ==
    /\ reqs[r].pc = "createMatch"
    /\ LET pair == SortPair(reqs[r].user, reqs[r].target)
       IN  IF MatchKeyFree(pair[1], pair[2])
             THEN /\ matches' = matches \cup
                         {[id |-> Cuid(rowSeq + 1), userAId |-> pair[1],
                           userBId |-> pair[2], isActive |-> TRUE]}
                  /\ conversations' = conversations \cup NestedConversation(rowSeq)
                  /\ rowSeq' = rowSeq + 2
                  /\ reqs' = [reqs EXCEPT ![r] =
                         Reply(r, 200, NULL, TRUE, Cuid(rowSeq + 1))]
             ELSE /\ reqs' = [reqs EXCEPT ![r] =
                         Reply(r, 500, "Unique constraint failed", FALSE, NoId)]
                  /\ UNCHANGED <<matches, conversations, rowSeq>>
    /\ UNCHANGED swipes
    /\ UNCHANGED notMatchVars

----------------------------------------------------------------------------
(* Marketplace contact, unmatch and block: the other handlers that write   *)
(* the Match table.  One action per storage round trip, as above.          *)

OpIds == 1..MaxOps

IdleOp ==
    [pc |-> "idle", kind |-> NULL, user |-> 0, target |-> 0, matchId |-> NoId,
     status |-> 0, error |-> NULL, conversationId |-> NoId, isNew |-> FALSE]

OpReply(o, status, error) ==
    [ops[o] EXCEPT !.pc = "done", !.status = status, !.error = error]

\* table Listing: listing n is offered by user n
FindListing(id) == {[id |-> x, sellerId |-> x] : x \in VerifiedUsers \cap {id}}

\* prisma.block.findUnique({where: {blockerId_blockedId: {...}}})
FindBlock(blocker, blocked) ==
    {b \in blocks : b.blockerId = blocker /\ b.blockedId = blocked}

\* DELETE /matches/:matchId: prisma.match.findFirst({where: {id, OR: [...]}})
FindOwnMatch(matchId, userId) ==
    {m \in matches : m.id = matchId /\ (m.userAId = userId \/ m.userBId = userId)}

\* (variant: the rows are deleted)
Deactivate_delete(ids) == {m \in matches : m.id \notin ids}

\* data: {isActive: false} on the Match rows with these ids
Deactivate(ids) ==
    {IF m.id \in ids THEN [m EXCEPT !.isActive = FALSE] ELSE m : m \in matches}

\* GET /matches: the matches listed for a user
MatchList(userId) ==
    {m \in matches : m.isActive /\ (m.userAId = userId \/ m.userBId = userId)}

\* a request arrives: the handler up to its first await.  target is the
\* listing (contact) or the other user (block); matchId is used by unmatch
OpStart(o, kind, user, target, matchId) ==
    /\ ops[o].pc = "idle"
    /\ \A q \in OpIds : q < o => ops[q].pc # "idle"
    /\ LET arrived == [IdleOp EXCEPT !.kind = kind, !.user = user,
                                     !.target = target, !.matchId = matchId]
       IN  ops' = [ops EXCEPT ![o] =
              CASE kind = "contact" -> [arrived EXCEPT !.pc = "findListing"]
                [] kind = "unmatch" -> [arrived EXCEPT !.pc = "findOwnMatch"]
                [] OTHER ->
                     IF user = target
                       THEN [arrived EXCEPT !.pc = "done", !.status = 400,
                                            !.error = "Cannot block yourself"]
                       ELSE [arrived EXCEPT !.pc = "findUser"]]
    /\ UNCHANGED <<blocks, matches, conversations, rowSeq>>
    /\ UNCHANGED notSocialVars

\* contact: await prisma.listing.findUnique, then the seller check
ContactFindListing(o) ==
    /\ ops[o].pc = "findListing"
    /\ LET listing == FindListing(ops[o].target)
       IN  ops' = [ops EXCEPT ![o] =
              IF listing = {}
                THEN OpReply(o, 404, "Listing not found")
              ELSE IF \E l \in listing : l.sellerId = ops[o].user
                THEN OpReply(o, 400, "Cannot message yourself")
                ELSE [ops[o] EXCEPT !.pc = "findMatch"]]
    /\ UNCHANGED <<blocks, matches, conversations, rowSeq>>
    /\ UNCHANGED notSocialVars

\* contact: await prisma.match.findFirst({... include: {conversation}}); an
\* existing Match with its Conversation is returned as it is
ContactFindMatch(o) ==
    /\ ops[o].pc = "findMatch"
    /\ LET sellerId == (CHOOSE l \in FindListing(ops[o].target) : TRUE).sellerId
           existing == {c \in conversations :
                           \E m \in FindMatch(ops[o].user, sellerId) : c.matchId = m.id}
       IN  ops' = [ops EXCEPT ![o] =
              IF existing # {}
                THEN [OpReply(o, 200, NULL) EXCEPT
                         !.conversationId = (CHOOSE c \in existing : TRUE).id]
                ELSE [ops[o] EXCEPT !.pc = "createMatch"]]
    /\ UNCHANGED <<blocks, matches, conversations, rowSeq>>
    /\ UNCHANGED notSocialVars

\* contact: await prisma.match.create({data: {userAId, userBId, conversation:
\* {create: {}}}}), 201
ContactCreateMatch(o) ==
    /\ ops[o].pc = "createMatch"
    /\ LET sellerId == (CHOOSE l \in FindListing(ops[o].target) : TRUE).sellerId
           pair == SortPair(ops[o].user, sellerId)
       IN  IF MatchKeyFree(pair[1], pair[2])
             THEN /\ matches' = matches \cup
                         {[id |-> Cuid(rowSeq + 1), userAId |-> pair[1],
                           userBId |-> pair[2], isActive |-> TRUE]}
                  /\ conversations' = conversations \cup NestedConversation(rowSeq)
                  /\ rowSeq' = rowSeq + 2
                  /\ ops' = [ops EXCEPT ![o] =
                         [OpReply(o, 201, NULL) EXCEPT
                             !.conversationId = Cuid(rowSeq + 2), !.isNew = TRUE]]
             ELSE /\ ops' = [ops EXCEPT ![o] =
                         OpReply(o, 500, "Unique constraint failed")]
                  /\ UNCHANGED <<matches, conversations, rowSeq>>
    /\ UNCHANGED blocks
    /\ UNCHANGED notSocialVars

\* unmatch: await prisma.match.findFirst
UnmatchFind(o) ==
    /\ ops[o].pc = "findOwnMatch"
    /\ ops' = [ops EXCEPT ![o] =
          IF FindOwnMatch(ops[o].matchId, ops[o].user) = {}
            THEN OpReply(o, 404, "Match not found")
            ELSE [ops[o] EXCEPT !.pc = "updateMatch"]]
    /\ UNCHANGED <<blocks, matches, conversations, rowSeq>>
    /\ UNCHANGED notSocialVars

\* unmatch: await prisma.match.update({where: {id}, data: {isActive: false}})
UnmatchUpdate(o) ==
    /\ ops[o].pc = "updateMatch"
    /\ matches' = Deactivate({ops[o].matchId})
    /\ ops' = [ops EXCEPT ![o] = OpReply(o, 200, NULL)]
    /\ UNCHANGED <<blocks, conversations, rowSeq>>
    /\ UNCHANGED notSocialVars

\* block: await prisma.user.findUnique
BlockFindUser(o) ==
    /\ ops[o].pc = "findUser"
    /\ ops' = [ops EXCEPT ![o] =
          IF FindUser(ops[o].target) = {}
            THEN OpReply(o, 404, "User not found")
            ELSE [ops[o] EXCEPT !.pc = "findBlock"]]
    /\ UNCHANGED <<blocks, matches, conversations, rowSeq>>
    /\ UNCHANGED notSocialVars

\* block: await prisma.block.findUnique
BlockFindExisting(o) ==
    /\ ops[o].pc = "findBlock"
    /\ ops' = [ops EXCEPT ![o] =
          IF FindBlock(ops[o].user, ops[o].target) # {}
            THEN OpReply(o, 400, "User already blocked")
            ELSE [ops[o] EXCEPT !.pc = "createBlock"]]
    /\ UNCHANGED <<blocks, matches, conversations, rowSeq>>
    /\ UNCHANGED notSocialVars

\* block: await prisma.block.create; the compound key blockerId_blockedId is
\* unique, a second row with it makes the create throw (500)
BlockCreate(o) ==
    /\ ops[o].pc = "createBlock"
    /\ IF FindBlock(ops[o].user, ops[o].target) = {}
         THEN /\ blocks' = blocks \cup
                     {[id |-> Cuid(rowSeq + 1), blockerId |-> ops[o].user,
                       blockedId |-> ops[o].target]}
              /\ rowSeq' = rowSeq + 1
              /\ ops' = [ops EXCEPT ![o].pc = "updateMatches"]
         ELSE /\ ops' = [ops EXCEPT ![o] = OpReply(o, 500, "Unique constraint failed")]
              /\ UNCHANGED <<blocks, rowSeq>>
    /\ UNCHANGED <<matches, conversations>>
    /\ UNCHANGED notSocialVars

\* block: await prisma.match.updateMany({where: {OR: [...]}, data: {isActive:
\* false}}), 201
BlockUpdateMatches(o) ==
    /\ ops[o].pc = "updateMatches"
    /\ matches' = Deactivate({m.id : m \in FindMatch(ops[o].user, ops[o].target)})
    /\ ops' = [ops EXCEPT ![o] = OpReply(o, 201, NULL)]
    /\ UNCHANGED <<blocks, conversations, rowSeq>>
    /\ UNCHANGED notSocialVars

----------------------------------------------------------------------------
(* Realtime hub (WebSocket).  The two registries are Maps from a key to a  *)
(* Set of sockets: per key, whether the Map has it and the Set it holds.   *)

Sockets == {1, 2}
NoSocket == 0
\* the server accepts connections one after the other
Earlier(s) == {t \in Sockets : t < s}

Absent == [has |-> FALSE, set |-> {}]
MapHas(map, k) == map[k].has
MapGet(map, k) == map[k].set
MapSet(map, k, v) == [map EXCEPT ![k] = [has |-> TRUE, set |-> v]]
MapDelete(map, k) == [map EXCEPT ![k] = Absent]

ConvPrefix == <<"c", "o", "n", "v", "e", "r", "s", "a", "t", "i", "o", "n", ":">>
RoomOf(conversationId) == ConvPrefix \o conversationId

\* String.prototype.replace(sub, ""): the first occurrence of sub removed
ReplaceFirst(str, sub) ==
    IF ~Includes(str, sub) THEN str
    ELSE LET i == CHOOSE k \in 1..Len(str) :
                     /\ SubSeq(str, k, k + Len(sub) - 1) = sub
                     /\ \A j \in 1..(k - 1) : SubSeq(str, j, j + Len(sub) - 1) # sub
         IN  SubSeq(str, 1, i - 1) \o SubSeq(str, i + Len(sub), Len(str))

\* the conversation ids and room names clients use in frames
RoomNames == {RoomOf(ConvIdA), RoomOf(ConvIdB), <<"l", "o", "b", "b", "y">>}

\* session tokens presented in the connection URL ("": no token parameter)
TokenOf(u) == <<"jwt", u>>
Tokens == {<<"">>, <<"forged", 1>>} \cup {TokenOf(u) : u \in {1, 3}}

\* (variant: the payload is decoded without checking the signature)
JwtVerify_unchecked(token) ==
    IF Len(token) = 2 THEN {[userId |-> token[2], walletAddress |-> WalletOf(token[2])]}
    ELSE {}

\* app.jwt.verify(token): the decoded payload, or none when verify throws
JwtVerify(token) ==
    IF Len(token) = 2 /\ token[1] = "jwt"
      THEN {[userId |-> token[2], walletAddress |-> WalletOf(token[2])]}
      ELSE {}

\* events sent to clients
Event(type, text, room, msgId) ==
    [type |-> type, text |-> text, room |-> room, msgId |-> msgId]
ErrorEvent(text) == Event("error", text, EmptyStr, NoId)

\* socket.readyState: 1 OPEN, 2 CLOSING, 3 CLOSED
ReadyState(s) ==
    CASE socks[s].state = "open"    -> 1
      [] socks[s].state = "closing" -> 2
      [] socks[s].state = "closed"  -> 3
      [] OTHER                      -> 0

NewSocket ==
    [state |-> "none", token |-> <<"">>, userId |-> 0, rooms |-> {},
     handlers |-> FALSE, closeCode |-> 0]

NothingSent == [s \in Sockets |-> <<>>]
\* socket.send(event): delivered only while the transport is open
Send(s, event) ==
    [NothingSent EXCEPT ![s] = IF ReadyState(s) = 1 THEN <<event>> ELSE <<>>]

\* (variant: the lookup by conversation id alone)
FindJoinConversation_anyUser(conversationId, userId) ==
    {c \in conversations : c.id = conversationId}

\* handleJoin: prisma.conversation.findFirst({where: {id, match: {isActive:
\* true, OR: [{userAId: userId}, {userBId: userId}]}}})
FindJoinConversation(conversationId, userId) ==
    {c \in conversations :
        /\ c.id = conversationId
        /\ \E m \in matches :
              /\ m.id = c.matchId
              /\ m.isActive
              /\ (m.userAId = userId \/ m.userBId = userId)}

\* the route handler of GET /ws: a connection arrives with its token
Connect(s, token) ==
    /\ socks[s].state = "none"
    /\ \A t \in Earlier(s) : socks[t].state # "none"
    /\ hubIn' = [kind |-> "connect", sock |-> s]
    /\ IF token = <<"">>
         THEN /\ socks' = [socks EXCEPT ![s] =
                     [NewSocket EXCEPT !.state = "closing", !.token = token,
                                       !.closeCode = 4001]]
              /\ wsSent' = [NothingSent EXCEPT ![s] = <<ErrorEvent("Missing token")>>]
              /\ UNCHANGED clients
       ELSE IF JwtVerify(token) = {}
         THEN /\ socks' = [socks EXCEPT ![s] =
                     [NewSocket EXCEPT !.state = "closing", !.token = token,
                                       !.closeCode = 4002]]
              /\ wsSent' = [NothingSent EXCEPT ![s] = <<ErrorEvent("Invalid token")>>]
              /\ UNCHANGED clients
         ELSE LET decoded == CHOOSE d \in JwtVerify(token) : TRUE
              IN  /\ socks' = [socks EXCEPT ![s] =
                         [NewSocket EXCEPT !.state = "open", !.token = token,
                                           !.userId = decoded.userId,
                                           !.handlers = TRUE]]
                  /\ clients' = MapSet(clients, decoded.userId,
                                       MapGet(clients, decoded.userId) \cup {s})
                  /\ wsSent' = [NothingSent EXCEPT ![s] =
                         <<Event("authenticated", "", UserIdStr(decoded.userId), NoId)>>]
    /\ UNCHANGED <<rooms, joins, granted, frames>>
    /\ UNCHANGED notHubVars

\* frames still arrive on a socket the server is closing, until the peer
\* answers the close; after the peer's own close none arrive
Receiving(s) ==
    \/ socks[s].state = "open"
    \/ socks[s].state = "closing" /\ socks[s].closeCode # 0

\* a frame arrives on a socket that has no message handler: nothing runs
FrameUnhandled(s, type) ==
    /\ Receiving(s)
    /\ frames < MaxFrames
    /\ frames' = frames + 1
    /\ ~socks[s].handlers
    /\ hubIn' = [kind |-> "frame", sock |-> s, type |-> type, room |-> EmptyStr,
                 handled |-> FALSE]
    /\ wsSent' = NothingSent
    /\ UNCHANGED <<socks, clients, rooms, joins, granted>>
    /\ UNCHANGED notHubVars

\* "join" frame: handleJoin up to its await
FrameJoin(s, roomName) ==
    /\ Receiving(s)
    /\ frames < MaxFrames
    /\ frames' = frames + 1
    /\ socks[s].handlers
    /\ hubIn' = [kind |-> "frame", sock |-> s, type |-> "join", room |-> roomName,
                 handled |-> TRUE]
    /\ IF socks[s].userId = 0
         THEN /\ wsSent' = Send(s, ErrorEvent("Not authenticated"))
              /\ UNCHANGED joins
       ELSE IF ~StartsWith(roomName, ConvPrefix)
         THEN /\ wsSent' = Send(s, ErrorEvent("Invalid room name"))
              /\ UNCHANGED joins
         ELSE LET earlier == {IF j.sock = s /\ j.room = roomName
                                THEN [j EXCEPT !.left = FALSE] ELSE j : j \in joins}
                  call == [sock |-> s, room |-> roomName, looked |-> FALSE,
                           found |-> FALSE, left |-> FALSE]
              IN  /\ Cardinality(joins) < MaxPending
                  /\ call \notin earlier
                  /\ Cardinality(earlier) = Cardinality(joins)
                  /\ joins' = earlier \cup {call}
              /\ wsSent' = NothingSent
    /\ UNCHANGED <<socks, clients, rooms, granted>>
    /\ UNCHANGED notHubVars

\* handleJoin: the conversation lookup is answered by the store
JoinLookup(j) ==
    /\ j \in joins
    /\ ~j.looked
    /\ LET conversationId == ReplaceFirst(j.room, ConvPrefix)
           userId == socks[j.sock].userId
           conversation == FindJoinConversation(conversationId, userId)
           answered == [j EXCEPT !.looked = TRUE, !.found = conversation # {}]
       IN  /\ answered \notin joins
           /\ joins' = (joins \ {j}) \cup {answered}
           /\ granted' =
                 IF \E c \in conversations, m \in matches :
                        /\ RoomOf(c.id) = j.room /\ c.matchId = m.id /\ m.isActive
                        /\ userId \in {m.userAId, m.userBId}
                   THEN granted \cup {<<j.sock, j.room>>}
                   ELSE granted
    /\ hubIn' = [kind |-> "lookup", sock |-> j.sock]
    /\ wsSent' = NothingSent
    /\ UNCHANGED <<socks, clients, rooms, frames>>
    /\ UNCHANGED notHubVars

\* handleJoin after its await: access denied, or the socket joins the room
JoinResume(j) ==
    /\ j \in joins
    /\ j.looked
    /\ joins' = joins \ {j}
    /\ hubIn' = [kind |-> "joined", sock |-> j.sock, room |-> j.room,
                 found |-> j.found, left |-> j.left]
    /\ IF ~j.found
         THEN /\ wsSent' = Send(j.sock, ErrorEvent("Access denied to conversation"))
              /\ UNCHANGED <<socks, rooms>>
         ELSE /\ rooms' = MapSet(rooms, j.room, MapGet(rooms, j.room) \cup {j.sock})
              /\ socks' = [socks EXCEPT ![j.sock].rooms = @ \cup {j.room}]
              /\ wsSent' = Send(j.sock, Event("room:joined", "", j.room, NoId))
    /\ UNCHANGED <<clients, granted, frames>>
    /\ UNCHANGED notHubVars

\* (variant: the room's member set is left as it is)
RoomWithout_kept(map, roomName, s) == map

\* room.delete(socket); if (room.size === 0) rooms.delete(roomName)
RoomWithout(map, roomName, s) ==
    IF MapHas(map, roomName)
      THEN IF MapGet(map, roomName) \ {s} = {}
             THEN MapDelete(map, roomName)
             ELSE MapSet(map, roomName, MapGet(map, roomName) \ {s})
      ELSE map

\* handleLeave
FrameLeave(s, roomName) ==
    /\ Receiving(s)
    /\ frames < MaxFrames
    /\ frames' = frames + 1
    /\ socks[s].handlers
    /\ hubIn' = [kind |-> "frame", sock |-> s, type |-> "leave", room |-> roomName,
                 handled |-> TRUE]
    /\ rooms' = RoomWithout(rooms, roomName, s)
    /\ socks' = [socks EXCEPT ![s].rooms = @ \ {roomName}]
    /\ wsSent' = Send(s, Event("room:left", "", roomName, NoId))
    /\ joins' = {IF j.sock = s /\ j.room = roomName
                   THEN [j EXCEPT !.left = TRUE] ELSE j : j \in joins}
    /\ UNCHANGED <<clients, granted>>
    /\ UNCHANGED notHubVars

\* the other frames: ping, an unknown type, text that is not JSON, and a
\* join or leave whose payload has no room
FrameOther(s, type) ==
    /\ Receiving(s)
    /\ frames < MaxFrames
    /\ frames' = frames + 1
    /\ socks[s].handlers
    /\ hubIn' = [kind |-> "frame", sock |-> s, type |-> type, room |-> EmptyStr,
                 handled |-> TRUE]
    /\ wsSent' =
          CASE type = "ping"      -> Send(s, Event("pong", "", EmptyStr, NoId))
            [] type = "unknown"   -> Send(s, ErrorEvent("Unknown message type"))
            [] type = "malformed" -> Send(s, ErrorEvent("Invalid message format"))
            [] OTHER              -> NothingSent
    /\ UNCHANGED <<socks, clients, rooms, joins, granted>>
    /\ UNCHANGED notHubVars

\* the rooms Map after socket s is taken out of its own rooms
RECURSIVE LeaveAll(_, _, _)
LeaveAll(map, s, names) ==
    IF names = {} THEN map
    ELSE LET roomName == CHOOSE r \in names : TRUE
         IN  LeaveAll(RoomWithout(map, roomName, s), s, names \ {roomName})

\* handleDisconnect: the registries after it
DisconnectRooms(s) == LeaveAll(rooms, s, socks[s].rooms)
DisconnectClients(s) ==
    LET userId == socks[s].userId
    IN  IF userId # 0 /\ MapHas(clients, userId)
          THEN IF MapGet(clients, userId) \ {s} = {}
                 THEN MapDelete(clients, userId)
                 ELSE MapSet(clients, userId, MapGet(clients, userId) \ {s})
          ELSE clients

\* the peer's close frame arrives, or the connection drops: the transport
\* is closing and the close event is pending
PeerClose(s) ==
    /\ socks[s].state = "open"
    /\ socks' = [socks EXCEPT ![s].state = "closing"]
    /\ hubIn' = [kind |-> "peerClose", sock |-> s]
    /\ wsSent' = NothingSent
    /\ UNCHANGED <<clients, rooms, joins, granted, frames>>
    /\ UNCHANGED notHubVars

\* socket.on("error"): handleDisconnect; the transport goes on to close
SocketError(s) ==
    /\ socks[s].state = "open"
    /\ socks[s].handlers
    /\ socks' = [socks EXCEPT ![s].state = "closing"]
    /\ rooms' = DisconnectRooms(s)
    /\ clients' = DisconnectClients(s)
    /\ hubIn' = [kind |-> "error", sock |-> s]
    /\ wsSent' = NothingSent
    /\ UNCHANGED <<joins, granted, frames>>
    /\ UNCHANGED notHubVars

\* socket.on("close"): the transport has closed; handleDisconnect, where the
\* handler was registered
SocketClose(s) ==
    /\ socks[s].state = "closing"
    /\ socks' = [socks EXCEPT ![s].state = "closed"]
    /\ IF socks[s].handlers
         THEN /\ rooms' = DisconnectRooms(s)
              /\ clients' = DisconnectClients(s)
         ELSE UNCHANGED <<rooms, clients>>
    /\ hubIn' = [kind |-> "close", sock |-> s]
    /\ wsSent' = NothingSent
    /\ UNCHANGED <<joins, granted, frames>>
    /\ UNCHANGED notHubVars

\* (variant: every member but the excluded one, whatever its readyState)
BroadcastTargets_anyState(roomName, excludeSocket) ==
    IF ~MapHas(rooms, roomName) THEN {}
    ELSE {s \in MapGet(rooms, roomName) : s # excludeSocket}

\* broadcastToRoom: the sockets the loop sends to
BroadcastTargets(roomName, excludeSocket) ==
    IF ~MapHas(rooms, roomName) THEN {}
    ELSE {s \in MapGet(rooms, roomName) : s # excludeSocket /\ ReadyState(s) = 1}

\* broadcastToRoom(roomName, message, excludeSocket): what each socket is sent
BroadcastSends(roomName, message, excludeSocket) ==
    [s \in Sockets |->
        IF s \in BroadcastTargets(roomName, excludeSocket) THEN <<message>> ELSE <<>>]

BroadcastToRoom(roomName, msgId, excludeSocket) ==
    /\ hubIn' = [kind |-> "broadcast", room |-> roomName, msgId |-> msgId,
                 exclude |-> excludeSocket]
    /\ wsSent' = BroadcastSends(roomName, Event("message:new", "", roomName, msgId),
                                excludeSocket)
    /\ UNCHANGED <<socks, clients, rooms, joins, granted, frames>>
    /\ UNCHANGED notHubVars

----------------------------------------------------------------------------
(* Conversation and message ledger: POST /conversations/:id/messages in    *)
(* its paid and its free variant, one action per storage or RPC round trip *)

\* what the Solana RPC knows: per signature, the transaction it returns
NoSignature == ""
Signatures == {"A1", "A2", "B1", "E1", "NONE"}
Chain(signature) ==
    CASE signature = "A1" ->
           [found |-> TRUE, err |-> FALSE, logMessages |-> <<>>,
            instructions |-> <<Transfer(WalletOf(1), PlatformWallet, MessageFeeLamports),
                               ParsedMemo(MsgPrefix \o ConvIdA)>>]
      [] signature = "A2" ->
           [found |-> TRUE, err |-> FALSE, logMessages |-> <<>>,
            instructions |-> <<Unparsed(MemoV2, "TVNHOmMy"),
                               Transfer(WalletOf(2), PlatformWallet, MessageFeeLamports)>>]
      [] signature = "B1" ->
           [found |-> TRUE, err |-> FALSE, logMessages |-> <<>>,
            instructions |-> <<Transfer(WalletOf(1), PlatformWallet, MessageFeeLamports),
                               Unparsed(MemoV2, "TVNHOmM0")>>]
      [] signature = "E1" ->
           [found |-> TRUE, err |-> TRUE, logMessages |-> <<>>,
            instructions |-> <<Transfer(WalletOf(1), PlatformWallet, MessageFeeLamports),
                               ParsedMemo(MsgPrefix \o ConvIdA)>>]
      [] OTHER -> NullTx

\* getTransaction(signature): the transaction, or null when the RPC call
\* throws
getTransaction(signature) == {Chain(signature), NullTx}

\* getUserConversation(conversationId, userId)
getUserConversation(conversationId, userId) ==
    {c \in conversations :
        /\ c.id = conversationId
        /\ \E m \in matches :
              /\ m.id = c.matchId
              /\ m.isActive
              /\ (m.userAId = userId \/ m.userBId = userId)}

\* (variant: the lookup finds nothing)
FindMessageByTx_none(txSignature) == {}

\* prisma.message.findFirst({where: {paymentTx: txSignature}})
FindMessageByTx(txSignature) == {m \in messages : m.paymentTx = txSignature}

\* (variant: the table accepts any row)
MessageKeyFree_unconstrained(paymentTx) == TRUE

\* the unique constraint on Message.paymentTx: may a row with it be inserted
MessageKeyFree(paymentTx) == \A m \in messages : m.paymentTx # paymentTx

PostIds == {1, 2}

\* (variant: the header is not looked at)
MissingPayment_never(txSignature) == FALSE

\* if (!txSignature): the request has no x-payment header
MissingPayment(txSignature) == txSignature = NoSignature

IdlePost ==
    [pc |-> "idle", user |-> 0, conv |-> NoId, sig |-> NoSignature,
     contentOk |-> TRUE, status |-> 0, error |-> NULL, amount |-> 0,
     msgId |-> NoId, stamp |-> 0, usedBefore |-> FALSE, rpc |-> "none"]

PostReply(p, status, error) ==
    [posts[p] EXCEPT !.pc = "done", !.status = status, !.error = error]

\* steps of the handler that send nothing to the hub
NoHubOutput ==
    /\ hubIn' = [kind |-> "http"]
    /\ wsSent' = NothingSent

\* the request arrives: header and body are checked
PostStart(p, user, conv, sig, contentOk) ==
    /\ posts[p].pc = "idle"
    /\ \A q \in PostIds : q < p => posts[q].pc # "idle"
    /\ LET arrived == [IdlePost EXCEPT !.user = user, !.conv = conv, !.sig = sig,
                                       !.contentOk = contentOk,
                                       !.usedBefore =
                                          \E m \in messages : m.paymentTx = sig]
       IN  posts' = [posts EXCEPT ![p] =
              IF variant = "paid" /\ MissingPayment(sig)
                THEN [arrived EXCEPT !.pc = "done", !.status = 400,
                                     !.error = "Missing X-PAYMENT header"]
              ELSE IF ~contentOk
                THEN [arrived EXCEPT !.pc = "done", !.status = 400,
                                     !.error = "Invalid message content"]
                ELSE [arrived EXCEPT !.pc = "findConversation"]]
    /\ NoHubOutput
    /\ UNCHANGED <<messages, now, variant, conversations, rowSeq>>
    /\ UNCHANGED notPostVars

\* await getUserConversation(id, userId)
PostFindConversation(p) ==
    /\ posts[p].pc = "findConversation"
    /\ posts' = [posts EXCEPT ![p] =
          IF getUserConversation(posts[p].conv, posts[p].user) = {}
            THEN PostReply(p, 404, "Conversation not found")
            ELSE [posts[p] EXCEPT !.pc =
                     IF variant = "paid" THEN "findExisting" ELSE "create"]]
    /\ NoHubOutput
    /\ UNCHANGED <<messages, now, variant, conversations, rowSeq>>
    /\ UNCHANGED notPostVars

\* paid: await prisma.message.findFirst({where: {paymentTx}})
PostFindExisting(p) ==
    /\ posts[p].pc = "findExisting"
    /\ posts' = [posts EXCEPT ![p] =
          IF FindMessageByTx(posts[p].sig) # {}
            THEN PostReply(p, 400, "Transaction already used")
            ELSE [posts[p] EXCEPT !.pc = "getTransaction"]]
    /\ NoHubOutput
    /\ UNCHANGED <<messages, now, variant, conversations, rowSeq>>
    /\ UNCHANGED notPostVars

\* paid: await getTransaction(txSignature), then the checks on the payment
PostGetTransaction(p) ==
    /\ posts[p].pc = "getTransaction"
    /\ \E tx \in getTransaction(posts[p].sig) :
          LET verdict == verifyMessagePayment(tx, WalletOf(posts[p].user),
                                              posts[p].conv)
          IN  posts' = [posts EXCEPT ![p] =
                 [(IF verdict.valid
                     THEN [posts[p] EXCEPT !.pc = "create", !.amount = verdict.amount]
                     ELSE PostReply(p, 400, verdict.error))
                  EXCEPT !.rpc = IF ~tx.found THEN "null"
                                 ELSE IF tx.err THEN "failed" ELSE "found"]]
    /\ NoHubOutput
    /\ UNCHANGED <<messages, now, variant, conversations, rowSeq>>
    /\ UNCHANGED notPostVars

\* await prisma.message.create(...): the free variant stores the marker
\* "free" as paymentTx.  When the create has resolved the handler evaluates
\* new Date() (stamp) and issues the update of the conversation
PostCreate(p) ==
    /\ posts[p].pc = "create"
    /\ LET paymentTx == IF variant = "paid" THEN posts[p].sig ELSE "free"
       IN  IF MessageKeyFree(paymentTx)
             THEN /\ messages' = messages \cup
                         {[id |-> Cuid(rowSeq + 1), conversationId |-> posts[p].conv,
                           senderId |-> posts[p].user, paymentTx |-> paymentTx,
                           paymentAmount |-> posts[p].amount, sentAt |-> now]}
                  /\ rowSeq' = rowSeq + 1
                  /\ posts' = [posts EXCEPT ![p] =
                         [posts[p] EXCEPT !.pc = "update", !.msgId = Cuid(rowSeq + 1),
                                          !.stamp = now]]
             ELSE /\ posts' = [posts EXCEPT ![p] =
                         PostReply(p, 500, "Unique constraint failed")]
                  /\ UNCHANGED <<messages, rowSeq>>
    /\ NoHubOutput
    /\ UNCHANGED <<now, variant, conversations>>
    /\ UNCHANGED notPostVars

\* await prisma.conversation.update(...): the store applies the update with
\* the date the handler gave it; then broadcastNewMessage(...), 201
PostUpdate(p) ==
    /\ posts[p].pc = "update"
    /\ conversations' =
          {IF c.id = posts[p].conv THEN [c EXCEPT !.lastMessageAt = posts[p].stamp] ELSE c :
              c \in conversations}
    /\ hubIn' = [kind |-> "broadcast", room |-> RoomOf(posts[p].conv),
                 msgId |-> posts[p].msgId, exclude |-> NoSocket]
    /\ wsSent' = BroadcastSends(RoomOf(posts[p].conv),
                                Event("message:new", "", RoomOf(posts[p].conv),
                                      posts[p].msgId),
                                NoSocket)
    /\ posts' = [posts EXCEPT ![p] = PostReply(p, 201, NULL)]
    /\ UNCHANGED <<messages, now, variant, rowSeq>>
    /\ UNCHANGED notPostVars

\* a millisecond passes
Tick ==
    /\ now < MaxClock
    /\ now' = now + 1
    /\ NoHubOutput
    /\ UNCHANGED <<messages, posts, variant, conversations, rowSeq>>
    /\ UNCHANGED notPostVars

----------------------------------------------------------------------------
(* GET /conversations/:id/messages, and a client that pages a conversation *)
(* backwards with it                                                       *)

\* a Date in a JSON response and back through new Date(string): the clock
\* value written in decimal digits
DigitValue(ch) == (CHOOSE i \in 1..10 : Digits[i] = ch) - 1
DateToJSON(t) == <<Digits[((t \div 10) % 10) + 1], Digits[(t % 10) + 1]>>
ParseDate(str) == DigitValue(str[1]) * 10 + DigitValue(str[2])

\* parseInt(str, 10) of a string of digits
RECURSIVE ParseInt(_)
ParseInt(str) ==
    IF str = <<>> THEN 0
    ELSE ParseInt(SubSeq(str, 1, Len(str) - 1)) * 10 + DigitValue(str[Len(str)])

\* parseInt(request.query.limit || "50", 10)
LimitOf(limitQuery) ==
    ParseInt(IF limitQuery = EmptyStr THEN <<"5", "0">> ELSE limitQuery)

Min(a, b) == IF a <= b THEN a ELSE b

\* (variant: the row sent at the cursor's date is included)
CursorFilter_inclusive(m, cursor) ==
    cursor = EmptyStr \/ m.sentAt <= ParseDate(cursor)

\* where: cursor ? {sentAt: {lt: new Date(cursor)}} : {}
CursorFilter(m, cursor) ==
    cursor = EmptyStr \/ m.sentAt < ParseDate(cursor)

\* prisma.message.findMany({where, orderBy: {sentAt: "desc"}, take: limit}):
\* the results the store may return; rows of equal sentAt come in any order
FindMany(conversationId, cursor, limit) ==
    LET rows == {m \in messages :
                    m.conversationId = conversationId /\ CursorFilter(m, cursor)}
        n == Min(limit, Cardinality(rows))
    IN  {q \in [1..n -> rows] :
            /\ \A i, j \in 1..n : i < j => (q[i] # q[j] /\ q[i].sentAt >= q[j].sentAt)
            /\ \A r \in rows : (\A i \in 1..n : q[i] # r) =>
                                   (\A i \in 1..n : r.sentAt <= q[i].sentAt)}

\* formattedMessages.reverse()
Reversed(q) == [i \in 1..Len(q) |-> q[Len(q) + 1 - i]]

\* the ids of the messages of a response
ReversedIds(q) == [i \in 1..Len(q) |-> Reversed(q)[i].id]

\* the nextCursor of a response: a date, null, or undefined (the field is
\* then left out of the JSON body)
NullCursor == [kind |-> "null", value |-> EmptyStr]
UndefinedCursor == [kind |-> "undefined", value |-> EmptyStr]
DateCursor(t) == [kind |-> "date", value |-> DateToJSON(t)]

\* messages.length === limit ? messages[messages.length - 1]?.sentAt : null
NextCursor(q, limit) ==
    IF Len(q) = limit
      THEN IF Len(q) = 0 THEN UndefinedCursor ELSE DateCursor(q[Len(q)].sentAt)
      ELSE NullCursor

IdlePager ==
    [pc |-> "idle", user |-> 0, conv |-> NoId, limit |-> EmptyStr,
     cursor |-> EmptyStr, seen |-> <<>>, snapshot |-> {}, status |-> 0,
     asked |-> EmptyStr, page |-> <<>>, nextCursor |-> NullCursor]

\* the client starts paging: the first call, without cursor
PageStart(user, conv, limitQuery) ==
    /\ pager.pc = "idle"
    /\ pager' = [IdlePager EXCEPT
                    !.pc = "findConversation", !.user = user, !.conv = conv,
                    !.limit = limitQuery,
                    !.snapshot = {m.id : m \in {x \in messages : x.conversationId = conv}}]
    /\ UNCHANGED notPageVars

\* await getUserConversation(id, userId)
PageFindConversation ==
    /\ pager.pc = "findConversation"
    /\ pager' = IF getUserConversation(pager.conv, pager.user) = {}
                  THEN [pager EXCEPT !.pc = "done", !.status = 404]
                  ELSE [pager EXCEPT !.pc = "findMany"]
    /\ UNCHANGED notPageVars

\* await prisma.message.findMany(...), the response (page, nextCursor: the
\* answer to the call made with the cursor asked), and the client's next
\* call with the nextCursor it was given, when it was given a date
PageFindMany ==
    /\ pager.pc = "findMany"
    /\ \E q \in FindMany(pager.conv, pager.cursor, LimitOf(pager.limit)) :
          LET next == NextCursor(q, LimitOf(pager.limit))
              more == next.kind = "date"
          IN  pager' = [pager EXCEPT
                  !.seen = @ \o ReversedIds(q),
                  !.status = 200,
                  !.asked = pager.cursor,
                  !.page = Reversed(q),
                  !.nextCursor = next,
                  !.cursor = IF more THEN next.value ELSE EmptyStr,
                  !.pc = IF more THEN "findConversation" ELSE "done"]
    /\ UNCHANGED notPageVars

----------------------------------------------------------------------------
(* The web client: the useWebSocket hook.  The page calls connect,         *)
(* disconnect, joinRoom and leaveRoom; the browser reports each socket's   *)
(* open, messages and close; a reconnect timer calls connect.  The server  *)
(* appears as the events it puts on a socket and the frames it has not     *)
(* answered yet; it answers frames in the order they were sent and grants  *)
(* every join.                                                             *)

SockIds == 1..MaxLive
ClientRooms == {RoomOf(ConvIdA)}

\* const maxReconnectAttempts = 5
maxReconnectAttempts == 5

\* a socket slot: state "none" (no socket), "connecting", "open", or
\* "closing" (the client has called close(), the close event is to come);
\* closedBy: which call closed it; hello: the server has sent
\* `authenticated`; inbox: events sent by the server and not yet delivered;
\* pending: frames sent by the client and not yet answered
NoSock ==
    [state |-> "none", closedBy |-> "none", hello |-> FALSE,
     inbox |-> <<>>, pending |-> <<>>]

NoTimer == [pending |-> FALSE, delay |-> 0]

\* the hook after its first render.  calls, opens, sinceOpen, intent, last
\* and out are history: the calls made and connections opened so far, the
\* reconnects scheduled since a connection last opened, the page's last
\* call about each room, the event handled in the last step and the
\* frames sent in it.  stray counts the pending timers that
\* reconnectTimeoutRef no longer refers to.
IdleClient ==
    [wsRef |-> 0, socks |-> [k \in SockIds |-> NoSock],
     reconnectAttempts |-> 0, reconnectTimeoutRef |-> NoTimer, stray |-> 0,
     joinedRooms |-> {}, isAuthenticated |-> FALSE,
     calls |-> 0, opens |-> 0, sinceOpen |-> 0,
     intent |-> [r \in ClientRooms |-> "none"],
     last |-> [kind |-> "none", sock |-> 0, code |-> 0, closedBy |-> "none"],
     out |-> {}]

\* the client as a step finds it: nothing sent yet, the event noted
Handling(kind, k, code) ==
    [cli EXCEPT !.out = {},
                !.last = [kind |-> kind, sock |-> k, code |-> code,
                          closedBy |-> IF k = 0 THEN "none"
                                       ELSE cli.socks[k].closedBy]]

\* (variant: the delay doubles without a ceiling from 2000 ms on)
Backoff_late(n) == 2000 * 2^n

\* Math.min(1000 * Math.pow(2, reconnectAttempts.current), 30000)
Backoff(n) == Min(1000 * 2^n, 30000)

\* !(reconnectAttempts.current >= maxReconnectAttempts)
AttemptsLeft(c) == c.reconnectAttempts < maxReconnectAttempts

\* scheduleReconnect: a timer that was pending stays pending, the ref
\* points to the new one
scheduleReconnect(c) ==
    IF ~AttemptsLeft(c) THEN c
    ELSE [c EXCEPT !.reconnectTimeoutRef =
                       [pending |-> TRUE, delay |-> Backoff(c.reconnectAttempts)],
                   !.stray = IF c.reconnectTimeoutRef.pending THEN @ + 1 ELSE @,
                   !.reconnectAttempts = @ + 1,
                   !.sinceOpen = @ + 1]

\* clearReconnectTimeout
clearReconnectTimeout(c) == [c EXCEPT !.reconnectTimeoutRef = NoTimer]

\* WebSocket.close() on socket k: the closing handshake starts
CloseSock(c, k, why) ==
    IF c.socks[k].state \in {"connecting", "open"}
      THEN [c EXCEPT !.socks[k].state = "closing", !.socks[k].closedBy = why]
      ELSE c

HasFreeSock(c) == \E k \in SockIds : c.socks[k].state = "none"
FreeSock(c) ==
    CHOOSE k \in SockIds :
        /\ c.socks[k].state = "none"
        /\ \A j \in SockIds : j < k => c.socks[j].state # "none"

\* connect: the socket in wsRef is closed, the referenced timer cleared, a
\* new socket made and put in wsRef
connect(c) ==
    LET closed == IF c.wsRef # 0 THEN CloseSock(c, c.wsRef, "replace") ELSE c
        cleared == clearReconnectTimeout(closed)
        k == FreeSock(c)
    IN  [cleared EXCEPT !.socks[k] = [NoSock EXCEPT !.state = "connecting"],
                        !.wsRef = k]

\* disconnect
disconnect(c) ==
    LET cleared == clearReconnectTimeout(c)
        closed == IF c.wsRef # 0 THEN CloseSock(cleared, c.wsRef, "disconnect")
                  ELSE cleared
    IN  [closed EXCEPT !.reconnectAttempts = maxReconnectAttempts,
                       !.wsRef = 0,
                       !.isAuthenticated = FALSE,
                       !.joinedRooms = {},
                       !.intent = [r \in ClientRooms |-> "none"]]

Frame(type, room) == [type |-> type, room |-> room]

\* WebSocket.send on socket k: the frame leaves only while the socket is open
SockSend(c, k, frame) ==
    IF c.socks[k].state = "open"
      THEN [c EXCEPT !.socks[k].pending = Append(@, frame),
                     !.out = @ \cup {[sock |-> k, type |-> frame.type,
                                      room |-> frame.room]}]
      ELSE c

\* send: through the socket in wsRef, when it is open
send(c, frame) == IF c.wsRef # 0 THEN SockSend(c, c.wsRef, frame) ELSE c

\* joinRoom
joinRoom(c, room) ==
    send([c EXCEPT !.joinedRooms = @ \cup {room}, !.intent[room] = "joined"],
         Frame("join", room))

\* leaveRoom
leaveRoom(c, room) ==
    send([c EXCEPT !.joinedRooms = @ \ {room}, !.intent[room] = "left"],
         Frame("leave", room))

\* for (const room of joinedRooms.current) ws.send(join room)
RECURSIVE Rejoin(_, _, _)
Rejoin(c, k, roomSet) ==
    IF roomSet = {} THEN c
    ELSE LET room == CHOOSE r \in roomSet : TRUE
         IN  Rejoin(SockSend(c, k, Frame("join", room)), k, roomSet \ {room})

\* ws.onmessage of socket k
onmessage(c, k, ev) ==
    CASE ev.type = "authenticated" ->
           Rejoin([c EXCEPT !.isAuthenticated = TRUE], k, c.joinedRooms)
      [] ev.type = "room:joined" -> [c EXCEPT !.joinedRooms = @ \cup {ev.room}]
      [] ev.type = "room:left" -> [c EXCEPT !.joinedRooms = @ \ {ev.room}]
      [] OTHER -> c

\* ws.onopen of socket k
onopen(c, k) ==
    [c EXCEPT !.socks[k].state = "open", !.reconnectAttempts = 0,
              !.sinceOpen = 0, !.opens = @ + 1]

\* event.code !== 1000 && event.code !== 4001 && event.code !== 4002
Abnormal(code) == code \notin {1000, 4001, 4002}

\* ws.onclose of socket k: the socket is gone
onclose(c, k, code) ==
    LET gone == [c EXCEPT !.socks[k] = NoSock, !.isAuthenticated = FALSE,
                          !.wsRef = 0]
    IN  IF Abnormal(code) THEN scheduleReconnect(gone) ELSE gone

\* the codes the close event of socket k can carry: 1005 or 1006 after
\* close() without a code, 1000 or 1006 after close(1000), 1006 when the
\* connection was never made, and otherwise what the server or the network
\* did (the server closes with 4001 or 4002 instead of authenticating)
CloseCodes(k) ==
    CASE cli.socks[k].closedBy = "replace"    -> {1005, 1006}
      [] cli.socks[k].closedBy = "disconnect" -> {1000, 1006}
      [] cli.socks[k].state = "connecting"    -> {1006}
      [] cli.socks[k].hello                   -> {1000, 1006}
      [] OTHER                                -> {1000, 1006, 4001, 4002}

\* the page calls connect (autoConnect, or the function the hook returns)
UserConnect ==
    /\ cli.calls < MaxCalls
    /\ HasFreeSock(cli)
    /\ cli' = [connect(Handling("connect", 0, 0)) EXCEPT !.calls = @ + 1]
    /\ UNCHANGED chat
    /\ UNCHANGED notWebVars

\* the page calls disconnect (also the effect's cleanup)
UserDisconnect ==
    /\ cli.calls < MaxCalls
    /\ cli' = [disconnect(Handling("disconnect", 0, 0)) EXCEPT !.calls = @ + 1]
    /\ UNCHANGED chat
    /\ UNCHANGED notWebVars

UserJoinRoom(room) ==
    /\ cli.calls < MaxCalls
    /\ cli' = [joinRoom(Handling("joinRoom", 0, 0), room) EXCEPT !.calls = @ + 1]
    /\ UNCHANGED chat
    /\ UNCHANGED notWebVars

UserLeaveRoom(room) ==
    /\ cli.calls < MaxCalls
    /\ cli' = [leaveRoom(Handling("leaveRoom", 0, 0), room) EXCEPT !.calls = @ + 1]
    /\ UNCHANGED chat
    /\ UNCHANGED notWebVars

\* the timer in reconnectTimeoutRef fires: connect()
TimerFires ==
    /\ cli.reconnectTimeoutRef.pending
    /\ HasFreeSock(cli)
    /\ cli' = connect(Handling("timer", 0, 0))
    /\ UNCHANGED chat
    /\ UNCHANGED notWebVars

\* a pending timer the ref no longer points to fires: connect()
StrayTimerFires ==
    /\ cli.stray > 0
    /\ HasFreeSock(cli)
    /\ cli' = connect([Handling("timer", 0, 0) EXCEPT !.stray = @ - 1])
    /\ UNCHANGED chat
    /\ UNCHANGED notWebVars

\* the connection of socket k is made: onopen
SocketOpens(k) ==
    /\ cli.socks[k].state = "connecting"
    /\ cli.opens < MaxOpens
    /\ cli' = onopen(Handling("open", k, 0), k)
    /\ UNCHANGED chat
    /\ UNCHANGED notWebVars

\* the server has verified the token of socket k and sends `authenticated`
ServerHello(k) ==
    /\ cli.socks[k].state = "open"
    /\ ~cli.socks[k].hello
    /\ cli' = [Handling("hello", k, 0) EXCEPT
                  !.socks[k].hello = TRUE,
                  !.socks[k].inbox = Append(@, Frame("authenticated", EmptyStr))]
    /\ UNCHANGED chat
    /\ UNCHANGED notWebVars

\* the server, which sent `authenticated` when the connection was made,
\* answers the oldest frame of socket k
ServerAnswers(k) ==
    /\ cli.socks[k].state \in {"open", "closing"}
    /\ cli.socks[k].hello
    /\ cli.socks[k].pending # <<>>
    /\ LET frame == Head(cli.socks[k].pending)
           answer == Frame(IF frame.type = "join" THEN "room:joined" ELSE "room:left",
                           frame.room)
       IN  cli' = [Handling("answer", k, 0) EXCEPT
                      !.socks[k].pending = Tail(@),
                      !.socks[k].inbox = Append(@, answer)]
    /\ UNCHANGED chat
    /\ UNCHANGED notWebVars

\* the oldest event on socket k is delivered: onmessage
Delivers(k) ==
    /\ cli.socks[k].state \in {"open", "closing"}
    /\ cli.socks[k].inbox # <<>>
    /\ LET ev == Head(cli.socks[k].inbox)
           taken == [Handling(ev.type, k, 0) EXCEPT !.socks[k].inbox = Tail(@)]
       IN  cli' = onmessage(taken, k, ev)
    /\ UNCHANGED chat
    /\ UNCHANGED notWebVars

\* socket k closes: onclose with the close event's code
SocketCloses(k, code) ==
    /\ cli.socks[k].state \in {"connecting", "open", "closing"}
    /\ code \in CloseCodes(k)
    /\ cli' = onclose(Handling("close", k, code), k, code)
    /\ UNCHANGED chat
    /\ UNCHANGED notWebVars

(* The conversation page (web): the message list of one conversation, fed *)
(* by message:new events, by the answers to its own sends and by polls of *)
(* GET /conversations/:id                                                 *)

\* GET /conversations/:id returns at most this many messages
take == 100

IdleChat ==
    [store  |-> <<>>,    \* server: ids of the conversation's messages, by sentAt
     made   |-> 0,       \* messages created while the page is open
     view   |-> <<>>,    \* the page's `messages` state, as ids
     events |-> {},      \* message:new events on their way to the page
     sends  |-> {},      \* answers to the page's sends on their way
     polls  |-> {},      \* answers to GET /conversations/:id on their way
     asked  |-> 0,       \* GET /conversations/:id requests made
     shown  |-> {},      \* history: ids the page appended from an event or a send
     last   |-> "none"]

\* setMessages(prev => prev.some(m => m.id === id) ? prev : [...prev, m])
MergeById(prev, id) ==
    IF \E i \in 1..Len(prev) : prev[i] = id THEN prev ELSE Append(prev, id)

\* findMany({ where: { conversationId }, orderBy: { sentAt: "asc" }, take: 100 })
ConversationMessages(store) == SubSeq(store, 1, Min(Len(store), take))

\* the conversation already holds `take` messages when the page opens
EarlierMessages ==
    /\ chat.store = <<>>
    /\ chat.asked = 0
    /\ chat' = [chat EXCEPT !.store = [i \in 1..take |-> i], !.last = "earlier"]
    /\ UNCHANGED cli
    /\ UNCHANGED notWebVars

\* POST /conversations/:id/messages stores a message and broadcasts
\* message:new to the room; when the page sent it, the answer carries it too
MessageCreated(mine) ==
    /\ chat.made < MaxMsgs
    /\ LET id == Len(chat.store) + 1
       IN chat' = [chat EXCEPT
                     !.store = Append(@, id),
                     !.made = @ + 1,
                     !.events = @ \cup {id},
                     !.sends = IF mine THEN @ \cup {id} ELSE @,
                     !.last = "created"]
    /\ UNCHANGED cli
    /\ UNCHANGED notWebVars

\* handleWsMessage for a message:new event of this conversation
handleWsMessage(id) ==
    /\ id \in chat.events
    /\ chat' = [chat EXCEPT
                  !.view = MergeById(@, id),
                  !.events = @ \ {id},
                  !.shown = @ \cup {id},
                  !.last = "event"]
    /\ UNCHANGED cli
    /\ UNCHANGED notWebVars

\* handleSendMessage after the await: the answer's message is merged
handleSendMessage(id) ==
    /\ id \in chat.sends
    /\ chat' = [chat EXCEPT
                  !.view = MergeById(@, id),
                  !.sends = @ \ {id},
                  !.shown = @ \cup {id},
                  !.last = "sent"]
    /\ UNCHANGED cli
    /\ UNCHANGED notWebVars

\* fetchConversation or the polling interval asks; the server reads the
\* conversation's messages
PollAsked ==
    /\ chat.asked < MaxPolls
    /\ chat' = [chat EXCEPT
                  !.polls = @ \cup {ConversationMessages(chat.store)},
                  !.asked = @ + 1,
                  !.last = "asked"]
    /\ UNCHANGED cli
    /\ UNCHANGED notWebVars

\* the answer arrives: setMessages(data.conversation.messages)
PollAnswered ==
    /\ \E answer \in chat.polls :
          chat' = [chat EXCEPT
                     !.view = answer,
                     !.polls = @ \ {answer},
                     !.last = "polled"]
    /\ UNCHANGED cli
    /\ UNCHANGED notWebVars


----------------------------------------------------------------------------
(* Specification of the swipe/match engine *)

InitVerifyIdle ==
    /\ vIn = [called |-> FALSE, fn |-> NULL]
    /\ vOut = [called |-> FALSE]

InitHubIdle ==
    /\ socks = [s \in Sockets |-> NewSocket]
    /\ clients = [u \in Users |-> Absent]
    /\ rooms = [r \in RoomNames |-> Absent]
    /\ joins = {}
    /\ granted = {}
    /\ frames = 0
    /\ hubIn = [kind |-> "none"]
    /\ wsSent = NothingSent

InitMsgIdle ==
    /\ messages = {}
    /\ posts = [p \in PostIds |-> IdlePost]
    /\ now = 1
    /\ variant = "paid"
    /\ pager = IdlePager

InitSocialIdle ==
    /\ blocks = {}
    /\ ops = [o \in OpIds |-> IdleOp]

(* Login challenges (lib/challenge): an in-memory Map keyed by nonce       *)

\* const CHALLENGE_EXPIRY_MS = 5 * 60 * 1000
CHALLENGE_EXPIRY_MS == 5 * 60 * 1000

Nonces == 1..MaxNonces

\* crypto.randomBytes(32).toString("hex") of the n-th call
NonceHex(n) == <<"e", Digits[(n % 10) + 1]>>

\* wallet addresses as text.  The text of the second is the beginning of
\* the text of the first: base58 keys have 43 or 44 characters
ChalWallets == {<<"7", "x", "K", "q">>, <<"7", "x", "K">>, <<"9", "p", "R">>}

\* `${timestamp}`
RECURSIVE ToDecimal(_)
ToDecimal(n) ==
    IF n < 10 THEN <<Digits[n + 1]>>
    ELSE ToDecimal(n \div 10) \o <<Digits[(n % 10) + 1]>>

\* `Sign in to LOVECOIN\n\nWallet: ${walletAddress}\nTimestamp: ${timestamp}\nNonce: ${nonce}`
ChallengeMessage(walletAddress, timestamp, nonce) ==
    <<"Sign in to LOVECOIN", "\n", "\n", "Wallet: ">> \o walletAddress
        \o <<"\n", "Timestamp: ">> \o ToDecimal(timestamp)
        \o <<"\n", "Nonce: ">> \o NonceHex(nonce)

NoChallenge == [has |-> FALSE, message |-> EmptyStr, expiresAt |-> 0]

\* the store before any call.  issued, valids, ticks and last are history:
\* the wallet and expiry each nonce was issued with, how often
\* verifyChallenge returned valid for it, how often the clock moved, and the
\* last call with its result and the store it found
IdleChal ==
    [challenges |-> [n \in Nonces |-> NoChallenge],
     clock |-> 0, ticks |-> 0, nonces |-> 0,
     issued |-> [n \in Nonces |-> [wallet |-> EmptyStr, expiresAt |-> 0]],
     valids |-> [n \in Nonces |-> 0],
     last |-> [kind |-> "none", nonce |-> 0, wallet |-> EmptyStr, valid |-> FALSE,
               message |-> EmptyStr, at |-> 0,
               before |-> [n \in Nonces |-> NoChallenge]]]

\* cleanupExpiredChallenges
cleanupExpiredChallenges(store, t) ==
    [n \in Nonces |-> IF store[n].has /\ t > store[n].expiresAt
                        THEN NoChallenge ELSE store[n]]

\* challenges.delete(nonce) after use
AfterUse(store, nonce) == [store EXCEPT ![nonce] = NoChallenge]

\* verifyChallenge(nonce, walletAddress) at time t: the result and the store
verifyChallenge(store, nonce, walletAddress, t) ==
    LET challenge == store[nonce]
        invalid == [valid |-> FALSE, message |-> EmptyStr]
    IN  IF ~challenge.has
          THEN [result |-> invalid, store |-> store]
        ELSE IF t > challenge.expiresAt
          THEN [result |-> invalid, store |-> [store EXCEPT ![nonce] = NoChallenge]]
        ELSE IF ~Includes(challenge.message, walletAddress)
          THEN [result |-> invalid, store |-> store]
        ELSE [result |-> [valid |-> TRUE, message |-> challenge.message],
              store |-> AfterUse(store, nonce)]

\* generateChallenge(walletAddress)
GenerateChallenge(walletAddress) ==
    /\ chal.nonces < MaxNonces
    /\ LET nonce == chal.nonces + 1
           timestamp == chal.clock
           message == ChallengeMessage(walletAddress, timestamp, nonce)
           stored == [chal.challenges EXCEPT ![nonce] =
                         [has |-> TRUE, message |-> message,
                          expiresAt |-> timestamp + CHALLENGE_EXPIRY_MS]]
       IN  chal' = [chal EXCEPT
                      !.challenges = cleanupExpiredChallenges(stored, chal.clock),
                      !.nonces = nonce,
                      !.issued[nonce] = [wallet |-> walletAddress,
                                         expiresAt |-> timestamp + CHALLENGE_EXPIRY_MS],
                      !.last = [kind |-> "generate", nonce |-> nonce,
                                wallet |-> walletAddress, valid |-> FALSE,
                                message |-> message, at |-> chal.clock,
                                before |-> chal.challenges]]
    /\ UNCHANGED notChalVars

\* a call verifyChallenge(nonce, walletAddress), as POST /auth/verify makes
VerifyChallenge(nonce, walletAddress) ==
    /\ LET call == verifyChallenge(chal.challenges, nonce, walletAddress, chal.clock)
       IN  chal' = [chal EXCEPT
                      !.challenges = call.store,
                      !.valids[nonce] = IF call.result.valid /\ @ < 2 THEN @ + 1 ELSE @,
                      !.last = [kind |-> "verify", nonce |-> nonce,
                                wallet |-> walletAddress,
                                valid |-> call.result.valid,
                                message |-> call.result.message, at |-> chal.clock,
                                before |-> chal.challenges]]
    /\ UNCHANGED notChalVars

\* time passes: a millisecond, or the lifetime of a challenge
ChalTick(d) ==
    /\ chal.ticks < MaxTicks
    /\ chal' = [chal EXCEPT !.clock = @ + d, !.ticks = @ + 1,
                            !.last.kind = "tick"]
    /\ UNCHANGED notChalVars

----------------------------------------------------------------------------
(* Read receipts: PATCH /conversations/:id/read                            *)

MarkIds == 1..MaxMarks

\* the two conversations of the model: user 1 with user 2, user 1 with
\* user 3; their Matches are active
ReadConversations == {ConvIdA, ConvIdB}
Participants(conversationId) == IF conversationId = ConvIdA THEN {1, 2} ELSE {1, 3}

\* getUserConversation(id, userId) for these conversations
IsParticipant(conversationId, userId) == userId \in Participants(conversationId)

IdleMark == [pc |-> "idle", user |-> 0, conv |-> NoId, status |-> 0]

\* no message yet.  readAt 0 is null; last is history: the handler step
\* taken last
IdleReads ==
    [msgs |-> <<>>, clock |-> 1, marks |-> [r \in MarkIds |-> IdleMark],
     last |-> [kind |-> "none", mark |-> 0]]

\* (variant: the filter readAt: null is missing)
MarkTargets_anyReadAt(msgs, conversationId, userId) ==
    {i \in 1..Len(msgs) :
        msgs[i].conversationId = conversationId /\ msgs[i].senderId # userId}

\* where: { conversationId: id, senderId: { not: userId }, readAt: null }
MarkTargets(msgs, conversationId, userId) ==
    {i \in 1..Len(msgs) :
        /\ msgs[i].conversationId = conversationId
        /\ msgs[i].senderId # userId
        /\ msgs[i].readAt = 0}

\* prisma.message.create: readAt is not given and defaults to null
MessageSent(sender, conversationId) ==
    /\ Len(reads.msgs) < MaxSent
    /\ sender \in Participants(conversationId)
    /\ reads' = [reads EXCEPT
                   !.msgs = Append(@, [conversationId |-> conversationId,
                                       senderId |-> sender, readAt |-> 0]),
                   !.last = [kind |-> "sent", mark |-> 0]]
    /\ UNCHANGED notReadVars

\* PATCH /:id/read arrives
MarkStart(r, user, conversationId) ==
    /\ reads.marks[r].pc = "idle"
    /\ \A q \in MarkIds : q < r => reads.marks[q].pc # "idle"
    /\ reads' = [reads EXCEPT
                   !.marks[r] = [IdleMark EXCEPT !.pc = "find", !.user = user,
                                                 !.conv = conversationId],
                   !.last = [kind |-> "start", mark |-> r]]
    /\ UNCHANGED notReadVars

\* await getUserConversation
MarkFind(r) ==
    /\ reads.marks[r].pc = "find"
    /\ reads' = [reads EXCEPT
                   !.marks[r] =
                       IF IsParticipant(reads.marks[r].conv, reads.marks[r].user)
                         THEN [@ EXCEPT !.pc = "update"]
                         ELSE [@ EXCEPT !.pc = "done", !.status = 404],
                   !.last = [kind |-> "find", mark |-> r]]
    /\ UNCHANGED notReadVars

\* await prisma.message.updateMany({ data: { readAt: new Date() } }), 200
MarkUpdate(r) ==
    /\ reads.marks[r].pc = "update"
    /\ LET targets == MarkTargets(reads.msgs, reads.marks[r].conv, reads.marks[r].user)
       IN  reads' = [reads EXCEPT
                       !.msgs = [i \in 1..Len(reads.msgs) |->
                                    IF i \in targets
                                      THEN [reads.msgs[i] EXCEPT !.readAt = reads.clock]
                                      ELSE reads.msgs[i]],
                       !.marks[r] = [@ EXCEPT !.pc = "done", !.status = 200],
                       !.last = [kind |-> "update", mark |-> r]]
    /\ UNCHANGED notReadVars

\* time passes
ReadTick ==
    /\ reads.clock <= MaxClock
    /\ reads' = [reads EXCEPT !.clock = @ + 1, !.last = [kind |-> "tick", mark |-> 0]]
    /\ UNCHANGED notReadVars

----------------------------------------------------------------------------
(* Account verification: GET /verification/payment-details and            *)
(* POST /verification/confirm                                              *)

ConfirmIds == 1..MaxConfirms
\* the accounts of the model; each has its own wallet (users are looked up
\* by walletAddress)
Payers == {1, 2}

\* the ledger: who signed the transfer of each transaction, and the user id
\* in its memo.  Every one pays the verification fee to the platform wallet
Ledger(sig) ==
    CASE sig = "S1" -> [payer |-> 1, memoFor |-> 1]
      [] sig = "S2" -> [payer |-> 2, memoFor |-> 1]
      [] sig = "S3" -> [payer |-> 1, memoFor |-> 1]
      [] sig = "S4" -> [payer |-> 2, memoFor |-> 2]
PaymentTxs == {"S1", "S2", "S3", "S4"}

\* what getTransaction returns for a signature of the ledger
LedgerTx(sig) ==
    [found |-> TRUE, err |-> FALSE,
     instructions |->
        <<Transfer(WalletOf(Ledger(sig).payer), PlatformWallet, VerificationFeeLamports),
          ParsedMemo(VerifyPrefix \o UserIdStr(Ledger(sig).memoFor))>>,
     logMessages |-> <<>>]

\* txSignature.length of the x-payment header values of the model
HeaderLength(header) == IF header \in PaymentTxs THEN 88 ELSE 5
Headers == PaymentTxs \cup {NULL, "short"}

IdleConfirm ==
    [pc |-> "idle", user |-> 0, sig |-> NULL, status |-> 0, error |-> NULL,
     wrote |-> FALSE]

NoDetails ==
    [user |-> 0, status |-> 0, error |-> NULL, sawVerified |-> FALSE,
     recipientWallet |-> NULL, amountLamports |-> 0, memo |-> EmptyStr]

\* nobody is verified.  written is history: the (user, signature) pairs the
\* update has stored; last is the handler step taken last
IdleVerif ==
    [users |-> [u \in Payers |->
                  [isVerified |-> FALSE, verificationTx |-> NULL, verificationAt |-> 0]],
     confirms |-> [c \in ConfirmIds |-> IdleConfirm],
     details |-> NoDetails,
     clock |-> 1,
     written |-> {},
     last |-> [kind |-> "none", confirm |-> 0]]

\* (variant: the handlers do not look at isVerified)
AlreadyVerified_never(user) == FALSE

\* if (user.isVerified)
AlreadyVerified(user) == user.isVerified

\* prisma.user.findFirst({ where: { verificationTx: txSignature } })
FindVerificationTx(users, txSignature) ==
    {u \in Payers : users[u].verificationTx = txSignature}

\* GET /verification/payment-details (amountSol, the same amount in SOL, is
\* left out)
PaymentDetails(u) ==
    /\ verif' = [verif EXCEPT
          !.details =
              IF AlreadyVerified(verif.users[u])
                THEN [NoDetails EXCEPT !.user = u, !.status = 400,
                                       !.error = "User already verified",
                                       !.sawVerified = verif.users[u].isVerified]
                ELSE [NoDetails EXCEPT !.user = u, !.status = 200,
                                       !.sawVerified = verif.users[u].isVerified,
                                       !.recipientWallet = PlatformWallet,
                                       !.amountLamports = VerificationFeeLamports,
                                       !.memo = VerifyPrefix \o UserIdStr(u)],
          !.last = [kind |-> "details", confirm |-> 0]]
    /\ UNCHANGED notVerifVars

ConfirmReply(c, status, error) ==
    [verif.confirms[c] EXCEPT !.pc = "done", !.status = status, !.error = error]

\* POST /verification/confirm arrives: the x-payment header is looked at
ConfirmStart(c, u, header) ==
    /\ verif.confirms[c].pc = "idle"
    /\ \A q \in ConfirmIds : q < c => verif.confirms[q].pc # "idle"
    /\ verif' = [verif EXCEPT
          !.confirms[c] =
              IF header = NULL
                THEN [IdleConfirm EXCEPT !.pc = "done", !.user = u, !.status = 400,
                                         !.error = "Missing X-PAYMENT header"]
              ELSE IF HeaderLength(header) < 80 \/ HeaderLength(header) > 100
                THEN [IdleConfirm EXCEPT !.pc = "done", !.user = u, !.sig = header,
                                         !.status = 400,
                                         !.error = "Invalid transaction signature format"]
              ELSE [IdleConfirm EXCEPT !.pc = "findUser", !.user = u, !.sig = header],
          !.last = [kind |-> "start", confirm |-> c]]
    /\ UNCHANGED notVerifVars

\* await prisma.user.findUnique; if (user.isVerified)
ConfirmFindUser(c) ==
    /\ verif.confirms[c].pc = "findUser"
    /\ verif' = [verif EXCEPT
          !.confirms[c] =
              IF AlreadyVerified(verif.users[verif.confirms[c].user])
                THEN ConfirmReply(c, 400, "User already verified")
                ELSE [@ EXCEPT !.pc = "findTx"],
          !.last = [kind |-> "findUser", confirm |-> c]]
    /\ UNCHANGED notVerifVars

\* await prisma.user.findFirst by verificationTx
ConfirmFindTx(c) ==
    /\ verif.confirms[c].pc = "findTx"
    /\ verif' = [verif EXCEPT
          !.confirms[c] =
              IF FindVerificationTx(verif.users, verif.confirms[c].sig) # {}
                THEN ConfirmReply(c, 400, "Transaction already used for verification")
                ELSE [@ EXCEPT !.pc = "verify"],
          !.last = [kind |-> "findTx", confirm |-> c]]
    /\ UNCHANGED notVerifVars

\* await verifyVerificationPayment(txSignature, walletAddress, userId)
ConfirmVerify(c) ==
    /\ verif.confirms[c].pc = "verify"
    /\ LET verification ==
              verifyVerificationPayment(LedgerTx(verif.confirms[c].sig),
                                        WalletOf(verif.confirms[c].user),
                                        verif.confirms[c].user)
       IN  verif' = [verif EXCEPT
              !.confirms[c] =
                  IF ~verification.valid
                    THEN ConfirmReply(c, 400, "Transaction verification failed")
                    ELSE [@ EXCEPT !.pc = "update"],
              !.last = [kind |-> "verify", confirm |-> c]]
    /\ UNCHANGED notVerifVars

\* await prisma.user.update: isVerified, verificationTx, verificationAt
ConfirmUpdate(c) ==
    /\ verif.confirms[c].pc = "update"
    /\ verif' = [verif EXCEPT
          !.users[verif.confirms[c].user] =
              [isVerified |-> TRUE, verificationTx |-> verif.confirms[c].sig,
               verificationAt |-> verif.clock],
          !.confirms[c] = [@ EXCEPT !.pc = "done", !.status = 200, !.wrote = TRUE],
          !.written = @ \cup {<<verif.confirms[c].user, verif.confirms[c].sig>>},
          !.last = [kind |-> "update", confirm |-> c]]
    /\ UNCHANGED notVerifVars

\* time passes
VerifTick ==
    /\ verif.clock <= MaxClock
    /\ verif' = [verif EXCEPT !.clock = @ + 1, !.last = [kind |-> "tick", confirm |-> 0]]
    /\ UNCHANGED notVerifVars

----------------------------------------------------------------------------
(* Rate limiting: the global limiter and the limits of the routes          *)

\* rateLimitConfigs[key].max; every timeWindow is one minute
rateLimitConfigs(key) ==
    CASE key = "auth"         -> 10
      [] key = "verification" -> 5
      [] key = "messaging"    -> 30
      [] key = "discovery"    -> 60
      [] key = "general"      -> 100

\* the routes of the model
Routes ==
    {"POST /auth/challenge", "POST /auth/verify", "POST /verification/confirm",
     "POST /conversations/:id/messages", "GET /discovery",
     "POST /discovery/like/:userId", "POST /discovery/pass/:userId",
     "DELETE /matches/:matchId"}

\* the configuration a route is registered with: authRateLimit,
\* verificationRateLimit, messagingRateLimit, discoveryRateLimit, or none,
\* which leaves the route to the global limiter
RouteConfig(route) ==
    CASE route \in {"POST /auth/challenge", "POST /auth/verify"} -> "auth"
      [] route = "POST /verification/confirm"                    -> "verification"
      [] route = "POST /conversations/:id/messages"              -> "messaging"
      [] route = "GET /discovery"                                -> "discovery"
      [] OTHER                                                   -> "general"

\* a route with a configuration of its own is counted on its own; the others
\* are counted together by the global limiter (global: true)
Bucket(route) == IF RouteConfig(route) = "general" THEN "global" ELSE route
Buckets == {Bucket(route) : route \in Routes}

NoRequest ==
    [route |-> NULL, nth |-> 0, rejected |-> FALSE, retryAfter |-> 0, handled |-> FALSE]

\* no request yet in the first window.  seen is history: the requests each
\* route received in this window; last is the request answered last, nth its
\* number among the requests of its route in the window
IdleLimiter ==
    [count |-> [b \in Buckets |-> 0],
     window |-> 1,
     seen |-> [route \in Routes |-> 0],
     last |-> NoRequest]

\* a request for a route passes the limiter: beyond max it is answered by
\* the errorResponseBuilder (retryAfter: 60), otherwise the handler runs
RateLimited(route) ==
    /\ limiter.seen[route] <= rateLimitConfigs(RouteConfig(route))
    /\ Cardinality({x \in Routes : limiter.seen[x] > 0} \cup {route}) <= MaxBusy
    /\ LET max == rateLimitConfigs(RouteConfig(route))
           current == limiter.count[Bucket(route)] + 1
       IN  limiter' = [limiter EXCEPT
              !.count[Bucket(route)] = current,
              !.seen[route] = @ + 1,
              !.last = [route |-> route, nth |-> limiter.seen[route] + 1,
                        rejected |-> current > max,
                        retryAfter |-> IF current > max THEN 60 ELSE 0,
                        handled |-> current <= max]]
    /\ UNCHANGED notLimiterVars

\* the time window ends: the counters start again
WindowEnds ==
    /\ limiter.window < MaxWindows
    /\ limiter' = [limiter EXCEPT
          !.count = [b \in Buckets |-> 0],
          !.seen = [route \in Routes |-> 0],
          !.window = @ + 1,
          !.last = NoRequest]
    /\ UNCHANGED notLimiterVars

----------------------------------------------------------------------------
(* Marketplace: POST /listings/:id/purchase                                *)

BuyIds == 1..MaxBuys
\* two listings of user 3 at the same price, and the buyers
ListingIds == {"L1", "L2"}
SellerOf(listingId) == 3
Buyers == {1, 2}
LAMPORTS_PER_SOL == 1000000000
\* listing.priceSol
PriceSol(listingId) == 1
\* config.marketplaceFeePercent
PLATFORM_FEE_PERCENT == 3

\* meta.postBalances - meta.preBalances of the seller's and the platform's
\* account in the transactions of the ledger: P1 and P2 pay the price of a
\* listing, P0 pays the seller alone
BalanceChanges(sig) ==
    CASE sig \in {"P1", "P2"} -> [seller |-> 970000000, platform |-> 30000000]
      [] OTHER                -> [seller |-> 1000000000, platform |-> 0]
PurchaseTxs == {"P0", "P1", "P2"}

Abs(x) == IF x < 0 THEN -x ELSE x

\* sellerOk && platformOk: each amount within 1% of the expected one (the
\* expected amounts of the model are multiples of 100 lamports, so the
\* quotients are exact)
AmountsMatch(listingId, change) ==
    LET expectedTotal == PriceSol(listingId) * LAMPORTS_PER_SOL
        expectedPlatformFee == (expectedTotal \div 100) * PLATFORM_FEE_PERCENT
        expectedSellerAmount == expectedTotal - expectedPlatformFee
    IN  /\ Abs(change.seller - expectedSellerAmount) < expectedSellerAmount \div 100
        /\ Abs(change.platform - expectedPlatformFee) < expectedPlatformFee \div 100

IdleBuy ==
    [pc |-> "idle", user |-> 0, listing |-> NULL, sig |-> NULL, status |-> 0,
     error |-> NULL]

\* both listings are for sale.  txSignatureUnique says whether the Purchase
\* table has a unique key on txSignature: the handler does not say, so both
\* are examined
IdleShop ==
    [status |-> [l \in ListingIds |-> "ACTIVE"],
     purchases |-> {},
     buys |-> [b \in BuyIds |-> IdleBuy],
     txSignatureUnique |-> FALSE]

BuyReply(b, status, error) ==
    [shop.buys[b] EXCEPT !.pc = "done", !.status = status, !.error = error]

\* the request arrives with a txSignature in its body
BuyStart(b, u, l, sig) ==
    /\ shop.buys[b].pc = "idle"
    /\ \A q \in BuyIds : q < b => shop.buys[q].pc # "idle"
    /\ shop' = [shop EXCEPT
          !.buys[b] = [IdleBuy EXCEPT !.pc = "findListing", !.user = u,
                                      !.listing = l, !.sig = sig]]
    /\ UNCHANGED notShopVars

\* await prisma.listing.findUnique with its purchase; status, seller and
\* purchase are looked at
BuyFindListing(b) ==
    /\ shop.buys[b].pc = "findListing"
    /\ LET l == shop.buys[b].listing
       IN  shop' = [shop EXCEPT
              !.buys[b] =
                  IF shop.status[l] # "ACTIVE"
                    THEN BuyReply(b, 400, "Listing is no longer available")
                  ELSE IF SellerOf(l) = shop.buys[b].user
                    THEN BuyReply(b, 400, "Cannot purchase your own listing")
                  ELSE IF \E p \in shop.purchases : p.listingId = l
                    THEN BuyReply(b, 400, "Listing already purchased")
                  ELSE [@ EXCEPT !.pc = "getTransaction"]]
    /\ UNCHANGED notShopVars

\* await connection.getTransaction; the balance changes are compared with
\* the price
BuyGetTransaction(b) ==
    /\ shop.buys[b].pc = "getTransaction"
    /\ shop' = [shop EXCEPT
          !.buys[b] =
              IF ~AmountsMatch(shop.buys[b].listing, BalanceChanges(shop.buys[b].sig))
                THEN BuyReply(b, 400, "Transaction amounts do not match listing price")
                ELSE [@ EXCEPT !.pc = "record"]]
    /\ UNCHANGED notShopVars

\* await prisma.$transaction: purchase.create and listing.update.  A unique
\* key that is taken makes create throw: nothing is written, 500
BuyRecord(b) ==
    /\ shop.buys[b].pc = "record"
    /\ LET l == shop.buys[b].listing
           taken == \/ \E p \in shop.purchases : p.listingId = l
                    \/ /\ shop.txSignatureUnique
                       /\ \E p \in shop.purchases : p.txSignature = shop.buys[b].sig
       IN  IF taken
             THEN shop' = [shop EXCEPT
                     !.buys[b] = BuyReply(b, 500, "Failed to verify transaction")]
             ELSE shop' = [shop EXCEPT
                     !.purchases = @ \cup {[listingId |-> l,
                                            buyerId |-> shop.buys[b].user,
                                            txSignature |-> shop.buys[b].sig]},
                     !.status[l] = "SOLD",
                     !.buys[b] = BuyReply(b, 201, NULL)]
    /\ UNCHANGED notShopVars

----------------------------------------------------------------------------

InitWebIdle ==
    /\ cli = IdleClient
    /\ chat = IdleChat

InitBackIdle ==
    /\ chal = IdleChal
    /\ verif = IdleVerif
    /\ reads = IdleReads
    /\ limiter = IdleLimiter
    /\ shop = IdleShop

InitMatch ==
    /\ InitSocialIdle
    /\ InitWebIdle
    /\ InitBackIdle
    /\ InitVerifyIdle
    /\ InitHubIdle
    /\ InitMsgIdle
    /\ swipes = {}
    /\ matches = {}
    /\ conversations = {}
    /\ rowSeq = 0
    /\ reqs = [r \in ReqIds |-> IdleReq]

NextMatch ==
    \/ \E r \in ReqIds, op \in {"LIKE", "PASS"}, u \in VerifiedUsers, t \in Users :
           StartSwipe(r, op, u, t)
    \/ \E r \in ReqIds : LikeFindTarget(r)
    \/ \E r \in ReqIds : SwipeFindExisting(r)
    \/ \E r \in ReqIds : SwipeCreate(r)
    \/ \E r \in ReqIds : LikeFindMutual(r)
    \/ \E r \in ReqIds : LikeFindMatch(r)
    \/ \E r \in ReqIds : LikeCreateMatch(r)

SpecMatch == InitMatch /\ [][NextMatch]_vars

----------------------------------------------------------------------------
(* Specification of the Match table's writers: likes and passes between    *)
(* users 1 and 2, together with contact, unmatch and block requests        *)

\* users 1 and 2 have liked each other (rows c1, c2) and are matched (rows
\* c3, c4)
StoreMatchedByLikes ==
    [swipes |-> {[id |-> Cuid(1), fromUserId |-> 1, toUserId |-> 2, action |-> "LIKE"],
                 [id |-> Cuid(2), fromUserId |-> 2, toUserId |-> 1, action |-> "LIKE"]},
     matches |-> {[id |-> Cuid(3), userAId |-> 1, userBId |-> 2, isActive |-> TRUE]},
     conversations |-> {[id |-> Cuid(4), matchId |-> Cuid(3), lastMessageAt |-> 0]},
     rowSeq |-> 4]

StoreEmpty ==
    [swipes |-> {}, matches |-> {}, conversations |-> {}, rowSeq |-> 0]

InitSocial ==
    /\ InitSocialIdle
    /\ InitWebIdle
    /\ InitBackIdle
    /\ InitVerifyIdle
    /\ InitHubIdle
    /\ InitMsgIdle
    /\ \E store \in {StoreEmpty, StoreMatchedByLikes} :
          /\ swipes = store.swipes
          /\ matches = store.matches
          /\ conversations = store.conversations
          /\ rowSeq = store.rowSeq
    /\ reqs = [r \in ReqIds |-> IdleReq]

\* the contact, unmatch and block requests users 1 and 2 make, and the
\* unmatch requests of user 3, who is in no Match
SocialRequests ==
    {[kind |-> "contact", user |-> u, target |-> l, matchId |-> NoId] :
        u \in {1, 2}, l \in {1, 2}}
    \cup {[kind |-> "unmatch", user |-> u, target |-> 0, matchId |-> m.id] :
             u \in {1, 3}, m \in matches}
    \cup {[kind |-> "block", user |-> u, target |-> t, matchId |-> NoId] :
             u \in {1, 2}, t \in {1, 2}}

NextSocial ==
    \/ \E r \in ReqIds, op \in {"LIKE", "PASS"}, u \in {1, 2}, t \in {1, 2} :
           StartSwipe(r, op, u, t)
    \/ \E r \in ReqIds : LikeFindTarget(r)
    \/ \E r \in ReqIds : SwipeFindExisting(r)
    \/ \E r \in ReqIds : SwipeCreate(r)
    \/ \E r \in ReqIds : LikeFindMutual(r)
    \/ \E r \in ReqIds : LikeFindMatch(r)
    \/ \E r \in ReqIds : LikeCreateMatch(r)
    \/ \E o \in OpIds, q \in SocialRequests :
           OpStart(o, q.kind, q.user, q.target, q.matchId)
    \/ \E o \in OpIds : ContactFindListing(o)
    \/ \E o \in OpIds : ContactFindMatch(o)
    \/ \E o \in OpIds : ContactCreateMatch(o)
    \/ \E o \in OpIds : UnmatchFind(o)
    \/ \E o \in OpIds : UnmatchUpdate(o)
    \/ \E o \in OpIds : BlockFindUser(o)
    \/ \E o \in OpIds : BlockFindExisting(o)
    \/ \E o \in OpIds : BlockCreate(o)
    \/ \E o \in OpIds : BlockUpdateMatches(o)

SpecSocial == InitSocial /\ [][NextSocial]_vars

----------------------------------------------------------------------------
(* Specification of the payment checks: both verifiers applied to every    *)
(* transaction of at most MaxInstr instructions over InstrSet              *)

Amounts == {MessageFeeLamports - 1, MessageFeeLamports, VerificationFeeLamports}

InstrSet ==
    {Transfer(WalletOf(1), PlatformWallet, amt) : amt \in Amounts}
    \cup {Transfer(WalletOf(2), PlatformWallet, VerificationFeeLamports),
          Transfer(WalletOf(1), WalletOf(2), VerificationFeeLamports),
          ParsedMemo(MsgPrefix \o ConvIdA),
          ParsedMemo(VerifyPrefix \o UserIdStr(1)),
          Unparsed(MemoV2, "TVNHOmM0"),
          Unparsed("ComputeBudget111111111111111111111111111111", "TVNHOmMy"),
          OtherParsed}

LogSets ==
    {<<>>,
     <<[hasMemoMarker |-> TRUE, quoted |-> MsgPrefix \o ConvIdA],
       [hasMemoMarker |-> FALSE, quoted |-> EmptyStr]>>,
     <<[hasMemoMarker |-> TRUE, quoted |-> EmptyStr]>>}


\* the transactions before their instructions are drawn
TxSet ==
    {NullTx} \cup
    {[found |-> TRUE, err |-> e, instructions |-> <<>>, logMessages |-> logs] :
        e \in BOOLEAN, logs \in LogSets}

VerifyInputs ==
    {[called |-> FALSE, fn |-> "verification", tx |-> tx,
      expectedSender |-> WalletOf(u),
      expectedId |-> UserIdStr(v),
      expectedMemo |-> VerifyPrefix \o UserIdStr(v),
      minimum |-> VerificationFeeLamports] :
        tx \in TxSet, u \in {1, 2}, v \in {1, 2}}
    \cup
    {[called |-> FALSE, fn |-> "message", tx |-> tx,
      expectedSender |-> WalletOf(u),
      expectedId |-> id,
      expectedMemo |-> MsgPrefix \o id,
      minimum |-> MessageFeeLamports] :
        tx \in TxSet, u \in {1, 2}, id \in {ConvIdA, ConvIdB}}

\* the transaction under examination gets one more instruction
DrawInstruction(ins) ==
    /\ ~vIn.called /\ vIn.tx.found
    /\ Len(vIn.tx.instructions) < MaxInstr
    /\ vIn' = [vIn EXCEPT !.tx.instructions = Append(@, ins)]
    /\ UNCHANGED vOut
    /\ UNCHANGED notVerifyVars

\* POST /verification/confirm calls verifyVerificationPayment
CheckVerification ==
    /\ ~vIn.called /\ vIn.fn = "verification"
    /\ vIn' = [vIn EXCEPT !.called = TRUE]
    /\ vOut' = [called |-> TRUE] @@
               verifyVerificationPayment(vIn.tx, vIn.expectedSender,
                                         IF vIn.expectedId = UserIdStr(1) THEN 1 ELSE 2)
    /\ UNCHANGED notVerifyVars

\* POST /conversations/:id/messages (paid) examines the fetched transaction
CheckMessage ==
    /\ ~vIn.called /\ vIn.fn = "message"
    /\ vIn' = [vIn EXCEPT !.called = TRUE]
    /\ vOut' = [called |-> TRUE] @@
               verifyMessagePayment(vIn.tx, vIn.expectedSender, vIn.expectedId)
    /\ UNCHANGED notVerifyVars

InitVerify ==
    /\ InitSocialIdle
    /\ InitWebIdle
    /\ InitBackIdle
    /\ vIn \in VerifyInputs
    /\ vOut = [called |-> FALSE]
    /\ InitHubIdle
    /\ InitMsgIdle
    /\ swipes = {}
    /\ matches = {}
    /\ conversations = {}
    /\ rowSeq = 0
    /\ reqs = [r \in ReqIds |-> IdleReq]

NextVerify ==
    \/ \E ins \in InstrSet : DrawInstruction(ins)
    \/ CheckVerification
    \/ CheckMessage

SpecVerify == InitVerify /\ [][NextVerify]_vars

----------------------------------------------------------------------------
(* Specification of the realtime hub: sockets connect, send frames, close, *)
(* and events are broadcast, over two conversations made beforehand        *)

\* users 1 and 2 are matched (rows c1, c2), users 2 and 3 were matched and
\* have unmatched (rows c3, c4); both through a listing contact, which makes
\* no Swipe row
InitStore ==
    /\ InitSocialIdle
    /\ InitWebIdle
    /\ InitBackIdle
    /\ swipes = {}
    /\ matches = {[id |-> Cuid(1), userAId |-> 1, userBId |-> 2, isActive |-> TRUE],
                  [id |-> Cuid(3), userAId |-> 2, userBId |-> 3, isActive |-> FALSE]}
    /\ conversations = {[id |-> ConvIdA, matchId |-> Cuid(1), lastMessageAt |-> 0],
                        [id |-> ConvIdB, matchId |-> Cuid(3), lastMessageAt |-> 0]}
    /\ rowSeq = 4
    /\ reqs = [r \in ReqIds |-> IdleReq]

InitHub ==
    /\ InitStore
    /\ InitVerifyIdle
    /\ InitHubIdle
    /\ InitMsgIdle

FrameTypes == {"ping", "unknown", "malformed", "join", "leave"}

NextHub ==
    \/ \E s \in Sockets, token \in Tokens : Connect(s, token)
    \/ \E s \in Sockets, type \in FrameTypes : FrameUnhandled(s, type)
    \/ \E s \in Sockets, roomName \in RoomNames : FrameJoin(s, roomName)
    \/ \E j \in joins : JoinLookup(j)
    \/ \E j \in joins : JoinResume(j)
    \/ \E s \in Sockets, roomName \in RoomNames : FrameLeave(s, roomName)
    \/ \E s \in Sockets, type \in FrameTypes : FrameOther(s, type)
    \/ \E s \in Sockets : PeerClose(s)
    \/ \E s \in Sockets : SocketError(s)
    \/ \E s \in Sockets : SocketClose(s)
    \/ \E roomName \in RoomNames, excludeSocket \in Sockets \cup {NoSocket} :
           BroadcastToRoom(roomName, Cuid(5), excludeSocket)

SpecHub == InitHub /\ [][NextHub]_vars

----------------------------------------------------------------------------
(* Specification of message posting: two requests at a time, in the paid   *)
(* or the free deployment, with both users of conversation c2 listening    *)

RoomA == RoomOf(ConvIdA)

\* sockets 1 and 2 are the connections of users 1 and 2, both joined to the
\* room of their conversation
InitHubListening ==
    /\ socks = [s \in Sockets |->
                   [NewSocket EXCEPT !.state = "open", !.token = TokenOf(s),
                                     !.userId = s, !.rooms = {RoomA},
                                     !.handlers = TRUE]]
    /\ clients = [u \in Users |-> IF u \in Sockets THEN [has |-> TRUE, set |-> {u}]
                                  ELSE Absent]
    /\ rooms = [r \in RoomNames |-> IF r = RoomA THEN [has |-> TRUE, set |-> Sockets]
                                    ELSE Absent]
    /\ joins = {}
    /\ granted = {<<s, RoomA>> : s \in Sockets}
    /\ frames = Cardinality(Sockets)
    /\ hubIn = [kind |-> "none"]
    /\ wsSent = NothingSent

InitMsg ==
    /\ InitStore
    /\ InitVerifyIdle
    /\ InitHubListening
    /\ messages = {}
    /\ posts = [p \in PostIds |-> IdlePost]
    /\ now = 1
    /\ variant \in {"paid", "free"}
    /\ pager = IdlePager

NextMsg ==
    \/ \E p \in PostIds, user \in VerifiedUsers, conv \in {ConvIdA, ConvIdB},
          sig \in Signatures \cup {NoSignature}, contentOk \in BOOLEAN :
           PostStart(p, user, conv, sig, contentOk)
    \/ \E p \in PostIds : PostFindConversation(p)
    \/ \E p \in PostIds : PostFindExisting(p)
    \/ \E p \in PostIds : PostGetTransaction(p)
    \/ \E p \in PostIds : PostCreate(p)
    \/ \E p \in PostIds : PostUpdate(p)
    \/ Tick

SpecMsg == InitMsg /\ [][NextMsg]_vars

----------------------------------------------------------------------------
(* Specification of access to a conversation: users 1 (a participant of    *)
(* c2) and 3 (not one) post to conversation c2 while user 2 unmatches or   *)
(* blocks user 1                                                           *)

AccessRequests ==
    {[kind |-> "unmatch", user |-> 2, target |-> 0, matchId |-> Cuid(1)],
     [kind |-> "block", user |-> 2, target |-> 1, matchId |-> NoId]}

NextAccess ==
    \/ \E p \in PostIds, user \in {1, 3} : PostStart(p, user, ConvIdA, "A1", TRUE)
    \/ \E p \in PostIds : PostFindConversation(p)
    \/ \E p \in PostIds : PostFindExisting(p)
    \/ \E p \in PostIds : PostGetTransaction(p)
    \/ \E p \in PostIds : PostCreate(p)
    \/ \E p \in PostIds : PostUpdate(p)
    \/ \E o \in OpIds, q \in AccessRequests :
           OpStart(o, q.kind, q.user, q.target, q.matchId)
    \/ \E o \in OpIds : UnmatchFind(o)
    \/ \E o \in OpIds : UnmatchUpdate(o)
    \/ \E o \in OpIds : BlockFindUser(o)
    \/ \E o \in OpIds : BlockFindExisting(o)
    \/ \E o \in OpIds : BlockCreate(o)
    \/ \E o \in OpIds : BlockUpdateMatches(o)

SpecAccess == InitMsg /\ [][NextAccess]_vars

----------------------------------------------------------------------------
(* Specification of paging: a client pages conversation c2, which holds up *)
(* to MaxHistory messages, while its two users post to it                  *)

HistorySigs == <<"H1", "H2", "H3", "H4">>

\* the sentAt values of the messages already stored, in insertion order
HistoryTimes ==
    UNION {{t \in [1..n -> 1..MaxClock] : \A i, j \in 1..n : i < j => t[i] <= t[j]} :
              n \in 0..MaxHistory}

History(t) ==
    {[id |-> Cuid(4 + i), conversationId |-> ConvIdA,
      senderId |-> IF i % 2 = 1 THEN 1 ELSE 2, paymentTx |-> HistorySigs[i],
      paymentAmount |-> MessageFeeLamports, sentAt |-> t[i]] : i \in 1..Len(t)}

\* a message of conversation c4, sent before its Match was deactivated
OtherMessage ==
    [id |-> Cuid(0), conversationId |-> ConvIdB, senderId |-> 3,
     paymentTx |-> "B0", paymentAmount |-> MessageFeeLamports, sentAt |-> 1]

InitPage ==
    /\ InitSocialIdle
    /\ InitWebIdle
    /\ InitBackIdle
    /\ InitVerifyIdle
    /\ InitHubIdle
    /\ swipes = {}
    /\ matches = {[id |-> Cuid(1), userAId |-> 1, userBId |-> 2, isActive |-> TRUE],
                  [id |-> Cuid(3), userAId |-> 2, userBId |-> 3, isActive |-> FALSE]}
    /\ reqs = [r \in ReqIds |-> IdleReq]
    /\ \E t \in HistoryTimes :
          /\ messages = History(t) \cup {OtherMessage}
          /\ rowSeq = 4 + Len(t)
          /\ now = IF Len(t) = 0 THEN 1 ELSE t[Len(t)]
          /\ conversations =
                {[id |-> ConvIdA, matchId |-> Cuid(1),
                  lastMessageAt |-> IF Len(t) = 0 THEN 0 ELSE t[Len(t)]],
                 [id |-> ConvIdB, matchId |-> Cuid(3), lastMessageAt |-> 0]}
    /\ posts = [p \in PostIds |-> IdlePost]
    /\ variant = "paid"
    /\ pager = IdlePager

PageLimits == {<<"0">>, <<"1">>, <<"2">>, EmptyStr}

NextPage ==
    \/ \E limitQuery \in PageLimits : PageStart(1, ConvIdA, limitQuery)
    \/ PageFindConversation
    \/ PageFindMany
    \/ \E p \in PostIds, payer \in {<<1, "A1">>, <<2, "A2">>} :
           PostStart(p, payer[1], ConvIdA, payer[2], TRUE)
    \/ \E p \in PostIds : PostFindConversation(p)
    \/ \E p \in PostIds : PostFindExisting(p)
    \/ \E p \in PostIds : PostGetTransaction(p)
    \/ \E p \in PostIds : PostCreate(p)
    \/ \E p \in PostIds : PostUpdate(p)
    \/ Tick

SpecPage == InitPage /\ [][NextPage]_vars

----------------------------------------------------------------------------
(* Specification of the web client's connection: the page's calls, the     *)
(* browser's socket events and the server's events, in any order           *)

CloseCodeSet == {1000, 1005, 1006, 4001, 4002}

NextClient ==
    \/ UserConnect
    \/ UserDisconnect
    \/ \E room \in ClientRooms : UserJoinRoom(room)
    \/ \E room \in ClientRooms : UserLeaveRoom(room)
    \/ TimerFires
    \/ StrayTimerFires
    \/ \E k \in SockIds : SocketOpens(k)
    \/ \E k \in SockIds : ServerHello(k)
    \/ \E k \in SockIds : ServerAnswers(k)
    \/ \E k \in SockIds : Delivers(k)
    \/ \E k \in SockIds, code \in CloseCodeSet : SocketCloses(k, code)

SpecClient == InitMatch /\ [][NextClient]_vars

NextChat ==
    \/ EarlierMessages
    \/ \E mine \in BOOLEAN : MessageCreated(mine)
    \/ \E id \in 1..(take + MaxMsgs) : handleWsMessage(id)
    \/ \E id \in 1..(take + MaxMsgs) : handleSendMessage(id)
    \/ PollAsked
    \/ PollAnswered

SpecChat == InitMatch /\ [][NextChat]_vars

NextChal ==
    \/ \E w \in ChalWallets : GenerateChallenge(w)
    \/ \E n \in Nonces, w \in ChalWallets : VerifyChallenge(n, w)
    \/ \E d \in {1, CHALLENGE_EXPIRY_MS} : ChalTick(d)

SpecChal == InitMatch /\ [][NextChal]_vars

NextVerif ==
    \/ \E u \in Payers : PaymentDetails(u)
    \/ \E c \in ConfirmIds, u \in Payers, header \in Headers : ConfirmStart(c, u, header)
    \/ \E c \in ConfirmIds : ConfirmFindUser(c)
    \/ \E c \in ConfirmIds : ConfirmFindTx(c)
    \/ \E c \in ConfirmIds : ConfirmVerify(c)
    \/ \E c \in ConfirmIds : ConfirmUpdate(c)
    \/ VerifTick

SpecVerif == InitMatch /\ [][NextVerif]_vars

NextLimiter ==
    \/ \E route \in Routes : RateLimited(route)
    \/ WindowEnds

SpecLimiter == InitMatch /\ [][NextLimiter]_vars

InitShop ==
    /\ InitSocialIdle
    /\ InitWebIdle
    /\ chal = IdleChal
    /\ verif = IdleVerif
    /\ reads = IdleReads
    /\ limiter = IdleLimiter
    /\ shop \in {[IdleShop EXCEPT !.txSignatureUnique = unique] : unique \in BOOLEAN}
    /\ InitVerifyIdle
    /\ InitHubIdle
    /\ InitMsgIdle
    /\ swipes = {}
    /\ matches = {}
    /\ conversations = {}
    /\ rowSeq = 0
    /\ reqs = [r \in ReqIds |-> IdleReq]

NextShop ==
    \/ \E b \in BuyIds, u \in Buyers \cup {SellerOf(l) : l \in ListingIds}, l \in ListingIds, sig \in PurchaseTxs :
          BuyStart(b, u, l, sig)
    \/ \E b \in BuyIds : BuyFindListing(b)
    \/ \E b \in BuyIds : BuyGetTransaction(b)
    \/ \E b \in BuyIds : BuyRecord(b)

SpecShop == InitShop /\ [][NextShop]_vars

NextRead ==
    \/ \E u \in {1, 2, 3}, c \in ReadConversations : MessageSent(u, c)
    \/ \E r \in MarkIds, u \in {1, 2, 3}, c \in ReadConversations : MarkStart(r, u, c)
    \/ \E r \in MarkIds : MarkFind(r)
    \/ \E r \in MarkIds : MarkUpdate(r)
    \/ ReadTick

SpecRead == InitMatch /\ [][NextRead]_vars

\* a socket that is connecting opens or fails, and one the client has
\* closed gets its close event
Settles(k) ==
    /\ cli.socks[k].state \in {"connecting", "closing"}
    /\ \/ SocketOpens(k)
       \/ \E code \in CloseCodeSet : SocketCloses(k, code)

\* the same client where timers fire and sockets settle
FairClient ==
    /\ SpecClient
    /\ WF_vars(TimerFires)
    /\ WF_vars(StrayTimerFires)
    /\ \A k \in SockIds : WF_vars(Settles(k))

----------------------------------------------------------------------------
(* Properties of the payment checks *)

SenderOk == vOut.sender = vIn.expectedSender
RecipientOk == vOut.recipient = PlatformWallet
AmountOk == vOut.amount >= vIn.minimum
MemoOk == Includes(vOut.memo, vIn.expectedMemo)
AmountReason ==
    IF vIn.fn = "verification" THEN "Amount too low" ELSE "Insufficient payment"
Examined == vOut.called /\ vIn.tx.found /\ ~vIn.tx.err

\* C4: payment verification evaluates sender = expected sender, recipient =
\* platform wallet, amount >= minimum fee, memo contains the expected marker,
\* in this order: the result is valid exactly if all four pass, and otherwise
\* the reason is that of the first failing check; each check failing alone
\* has a reason of its own.
C4_FirstFailingCheckReported ==
    Examined =>
        /\ vOut.valid <=> (SenderOk /\ RecipientOk /\ AmountOk /\ MemoOk)
        /\ (vOut.error = "Sender mismatch") <=> ~SenderOk
        /\ (vOut.error = "Recipient must be platform wallet")
               <=> (SenderOk /\ ~RecipientOk)
        /\ (vOut.error = AmountReason)
               <=> (SenderOk /\ RecipientOk /\ ~AmountOk)
        /\ (vOut.error = "Invalid memo")
               <=> (SenderOk /\ RecipientOk /\ AmountOk /\ ~MemoOk)
        /\ vOut.valid <=> (vOut.error = NULL)

\* a payment from the right sender to the wrong recipient and with the wrong
\* memo: the recipient is the reason reported
C4_Witness ==
    /\ Examined
    /\ SenderOk /\ ~RecipientOk /\ AmountOk /\ ~MemoOk
    /\ vOut.error = "Recipient must be platform wallet"

----------------------------------------------------------------------------
(* Properties of the swipe/match engine *)

SwipeRows(a, b) == {s \in swipes : s.fromUserId = a /\ s.toUserId = b}
LikeRows(a, b) == {s \in SwipeRows(a, b) : s.action = "LIKE"}
MatchRows(a, b) ==
    {m \in matches : {m.userAId, m.userBId} = {a, b}}
ConversationRows(a, b) ==
    {c \in conversations : \E m \in MatchRows(a, b) : c.matchId = m.id}
InFlight(r) == reqs[r].pc \notin {"idle", "done"}
PairQuiet(a, b) ==
    \A r \in ReqIds : InFlight(r) => {reqs[r].user, reqs[r].target} # {a, b}

\* C1: for distinct users A and B, once the likes A->B and B->A have both been
\* recorded and the requests on the pair have completed, exactly one Match row
\* and exactly one Conversation row exist for the unordered pair {A,B}, under
\* every arrival order and interleaving of the handlers' storage steps.
C1_OneMatchPerMutualLike ==
    \A a \in Users, b \in Users :
        (a # b /\ LikeRows(a, b) # {} /\ LikeRows(b, a) # {} /\ PairQuiet(a, b))
            => /\ Cardinality(MatchRows(a, b)) = 1
               /\ Cardinality(ConversationRows(a, b)) = 1

\* the two likes raced: both passed the existing-match lookup, one created
\* the Match, the other's create hit the pair's uniqueness constraint
C1_Witness ==
    \E r \in ReqIds, q \in ReqIds :
        /\ reqs[r].pc = "done" /\ reqs[q].pc = "done"
        /\ reqs[r].op = "LIKE" /\ reqs[q].op = "LIKE"
        /\ reqs[r].user = reqs[q].target /\ reqs[r].target = reqs[q].user
        /\ reqs[r].isMatch /\ reqs[q].status = 500
        /\ Cardinality(MatchRows(reqs[r].user, reqs[r].target)) = 1

EligibleTarget(u) ==
    \E t \in FindUser(u) : t.isVerified /\ ~t.isSuspended

\* C3 (as amended): for every ordered pair (A,B) at most one Swipe row ever
\* exists; a like or pass from A to B that arrives when a Swipe (A,B) exists
\* is rejected - with 'already swiped', or with 'User not found' when it is a
\* like whose target is not a verified, unsuspended user - and no step ever
\* updates or deletes a Swipe row.
C3_SwipeOnceNeverChanged ==
    /\ [](\A a \in Users, b \in Users : Cardinality(SwipeRows(a, b)) <= 1)
    /\ [](\A r \in ReqIds :
            (reqs[r].pc = "done" /\ reqs[r].swipedBefore) =>
                \/ /\ reqs[r].status = 400
                   /\ reqs[r].error = "Already swiped on this user"
                \/ /\ reqs[r].op = "LIKE" /\ ~EligibleTarget(reqs[r].target)
                   /\ reqs[r].status = 404
                   /\ reqs[r].error = "User not found")
    /\ [][\A s \in swipes : s \in swipes']_vars

\* a second swipe on the same ordered pair was turned away as already
\* swiped and the first row is still there with its action
C3_Witness ==
    \E r \in ReqIds :
        /\ reqs[r].pc = "done" /\ reqs[r].swipedBefore
        /\ reqs[r].error = "Already swiped on this user"
        /\ \E s \in SwipeRows(reqs[r].user, reqs[r].target) : s.action # reqs[r].op

\* C3 (original wording): every like or pass that arrives when a Swipe (A,B)
\* exists is rejected with the 'already swiped' condition.
C3_Original ==
    \A r \in ReqIds :
        (reqs[r].pc = "done" /\ reqs[r].swipedBefore) =>
            reqs[r].error = "Already swiped on this user"

\* C11: a like that stored its Swipe never ends in an error, and a like
\* that completes a mutual LIKE pair (its Swipe was stored when the opposite
\* LIKE already was) answers isMatch = true with the id of the pair's Match,
\* also when the other request created that Match
C11_RacingLikesReportMatch ==
    \A r \in ReqIds :
        (reqs[r].pc = "done" /\ reqs[r].op = "LIKE" /\ reqs[r].inserted # "none") =>
            /\ reqs[r].status = 200
            /\ reqs[r].inserted = "second" =>
                  /\ reqs[r].isMatch
                  /\ \E m \in MatchRows(reqs[r].user, reqs[r].target) :
                         m.id = reqs[r].matchId

\* C12: every Match row between users X and Y is backed by a LIKE Swipe from
\* X to Y and a LIKE Swipe from Y to X
C12_MatchBackedByMutualLikes ==
    \A m \in matches :
        LikeRows(m.userAId, m.userBId) # {} /\ LikeRows(m.userBId, m.userAId) # {}

ConversationsOf(m) == {c \in conversations : c.matchId = m.id}
MatchesOf(c) == {m \in matches : m.id = c.matchId}

\* C13: in every state each Match row has exactly one Conversation row and
\* each Conversation row belongs to exactly one Match row, and no step
\* (unmatch and block included) removes a Match or a Conversation row
C13_MatchAndConversationTogether ==
    /\ [](\A m \in matches : Cardinality(ConversationsOf(m)) = 1)
    /\ [](\A c \in conversations : Cardinality(MatchesOf(c)) = 1)
    /\ [][/\ \A m \in matches : \E n \in matches' : n.id = m.id
          /\ \A c \in conversations : c \in conversations']_vars

\* a Match made by a marketplace contact has been deactivated by a block
\* and is still there with its Conversation
C13_Witness ==
    \E o, p \in OpIds, m \in matches :
        /\ ops[o].kind = "contact" /\ ops[o].status = 201
        /\ ops[p].kind = "block" /\ ops[p].status = 201
        /\ ~m.isActive
        /\ \E c \in ConversationsOf(m) : c.id = ops[o].conversationId

UnmatchStep(o) == ops[o].pc = "updateMatch" /\ ops'[o].pc = "done"

BlockInFlight(a, b) ==
    \E o \in OpIds :
        /\ ops[o].kind = "block" /\ ops[o].pc \notin {"idle", "done"}
        /\ {ops[o].user, ops[o].target} = {a, b}

\* C20: whenever a Block row exists between two users and no block request
\* between them is in flight, no active Match exists between them
C20_NoActiveMatchWhileBlocked ==
    \A b \in blocks :
        ~BlockInFlight(b.blockerId, b.blockedId) =>
            \A m \in MatchRows(b.blockerId, b.blockedId) : ~m.isActive

\* C21: a like or pass of a user on themselves, or between two users with a
\* Block row in either direction when it arrives, is refused: it stores no
\* Swipe, creates no Match and is not answered 200
C21_IneligibleSwipeRefused ==
    \A r \in ReqIds :
        (reqs[r].pc # "idle"
            /\ (reqs[r].user = reqs[r].target \/ reqs[r].blockedBefore)) =>
                /\ reqs[r].inserted = "none"
                /\ reqs[r].pc \notin {"findMutual", "findMatch", "createMatch"}
                /\ reqs[r].status # 200
                /\ reqs[r].matchId = NoId

PassRows(a, b) ==
    {s \in swipes : /\ {s.fromUserId, s.toUserId} = {a, b}
                    /\ s.action = "PASS"}

\* C22: a pass never looks for a mutual like, never creates a Match and
\* never answers isMatch = true; no Match exists for a pair with a PASS in
\* either direction
C22_PassNeverMatches ==
    /\ \A r \in ReqIds : reqs[r].op = "PASS" =>
           /\ reqs[r].pc \notin {"findTarget", "findMutual", "findMatch", "createMatch"}
           /\ ~reqs[r].isMatch
           /\ reqs[r].matchId = NoId
    /\ \A m \in matches : PassRows(m.userAId, m.userBId) = {}

\* a like was accepted after the liked user had passed on the liker
C22_Witness ==
    \E r, q \in ReqIds :
        /\ reqs[r].op = "PASS" /\ reqs[r].status = 200
        /\ reqs[q].op = "LIKE" /\ reqs[q].status = 200
        /\ reqs[q].user = reqs[r].target /\ reqs[q].target = reqs[r].user
        /\ reqs[q].inserted = "first"
        /\ \E s \in FindSwipe(reqs[r].user, reqs[r].target),
              t \in FindSwipe(reqs[q].user, reqs[q].target) :
                /\ s.action = "PASS" /\ t.action = "LIKE"
                /\ matches = {}

\* C23: every Match holds two different users, the smaller id in userAId,
\* whoever made it and by a mutual like or a marketplace contact; the lookup
\* of the pair finds the same rows in either order of the two users
C23_MatchCanonicalOrder ==
    /\ \A m \in matches : m.userAId < m.userBId
    /\ \A a, b \in Users : FindMatch(a, b) = FindMatch(b, a)

\* the user with the larger id made the Match by contacting a listing of
\* the user with the smaller id
C23_Witness ==
    \E o \in OpIds :
        /\ ops[o].kind = "contact" /\ ops[o].status = 201 /\ ops[o].isNew
        /\ \E l \in FindListing(ops[o].target) :
              /\ ops[o].user > l.sellerId
              /\ \E m \in matches : /\ m.userAId = l.sellerId
                                     /\ m.userBId = ops[o].user

----------------------------------------------------------------------------
(* Properties of the realtime hub *)

Connected(s) == socks[s].state # "none"
MissingToken(s) == Connected(s) /\ socks[s].token = <<"">>
InvalidToken(s) ==
    /\ Connected(s)
    /\ socks[s].token # <<"">>
    /\ socks[s].token \notin {TokenOf(u) : u \in Users}
InRegistry(s) == \E u \in Users : s \in MapGet(clients, u)
InSomeRoom(s) == \E r \in RoomNames : s \in MapGet(rooms, r)
JoinPending(s) == \E j \in joins : j.sock = s

\* C6: a connection opened with a missing or an invalid token is sent an
\* error event and closed with code 4001 (missing) or 4002 (invalid); it is
\* never in the clients registry nor in a room, and a frame it sends is not
\* processed: nothing is answered and no join is started
C6_UnauthenticatedNeverAdmitted ==
    \A s \in Sockets :
        (MissingToken(s) \/ InvalidToken(s)) =>
            /\ socks[s].state \in {"closing", "closed"}
            /\ socks[s].closeCode = (IF MissingToken(s) THEN 4001 ELSE 4002)
            /\ socks[s].userId = 0
            /\ ~InRegistry(s)
            /\ ~InSomeRoom(s)
            /\ socks[s].rooms = {}
            /\ ~JoinPending(s)
            /\ (hubIn.kind = "connect" /\ hubIn.sock = s) =>
                   /\ Len(wsSent[s]) = 1
                   /\ wsSent[s][1].type = "error"
                   /\ wsSent[s][1].text =
                          (IF MissingToken(s) THEN "Missing token" ELSE "Invalid token")
            /\ (hubIn.kind = "frame" /\ hubIn.sock = s) =>
                   /\ ~hubIn.handled
                   /\ wsSent = NothingSent

\* a join frame has arrived on a connection refused for its forged token,
\* while another was refused for its missing token
C6_Witness ==
    /\ hubIn.kind = "frame"
    /\ hubIn.type = "join"
    /\ InvalidToken(hubIn.sock)
    /\ socks[hubIn.sock].closeCode = 4002
    /\ \E s \in Sockets : MissingToken(s) /\ socks[s].closeCode = 4001

\* the participant check of handleJoin, on the rows as they are now
IsParticipantRoom(s, roomName) ==
    \E c \in conversations, m \in matches :
        /\ roomName = RoomOf(c.id)
        /\ m.id = c.matchId
        /\ m.isActive
        /\ socks[s].userId \in {m.userAId, m.userBId}

JoinOutcome ==
    hubIn.kind = "joined" =>
        IF <<hubIn.sock, hubIn.room>> \in granted
          THEN /\ hubIn.room \in socks[hubIn.sock].rooms
               /\ hubIn.sock \in MapGet(rooms, hubIn.room)
          ELSE /\ hubIn.room \notin socks[hubIn.sock].rooms
               /\ hubIn.sock \notin MapGet(rooms, hubIn.room)
               /\ socks[hubIn.sock].state = "open" =>
                      wsSent[hubIn.sock] =
                          <<ErrorEvent("Access denied to conversation")>>

BadNameOutcome ==
    (/\ hubIn.kind = "frame"
     /\ hubIn.handled
     /\ hubIn.type = "join"
     /\ hubIn.room # EmptyStr
     /\ ~StartsWith(hubIn.room, ConvPrefix)) =>
        /\ hubIn.room \notin socks[hubIn.sock].rooms
        /\ hubIn.sock \notin MapGet(rooms, hubIn.room)
        /\ ~(\E j \in joins : j.sock = hubIn.sock /\ j.room = hubIn.room)
        /\ socks[hubIn.sock].state = "open" =>
               wsSent[hubIn.sock] = <<ErrorEvent("Invalid room name")>>

JoinStep ==
    /\ hubIn'.kind \in {"frame", "lookup", "joined"}
    /\ hubIn'.kind = "frame" => hubIn'.type = "join"

\* C7: every room in a connection's room set is a conversation room for
\* which the connection's user passed the participant check when joining; a
\* join that fails the check or names a non-conversation room is answered
\* with an error event, adds the connection to neither set, and no step of
\* a join changes the transport state of any connection
C7_RoomsOnlyByParticipantCheck ==
    /\ [](\A s \in Sockets : \A r \in socks[s].rooms :
              /\ StartsWith(r, ConvPrefix)
              /\ <<s, r>> \in granted
              /\ IsParticipantRoom(s, r))
    /\ [](JoinOutcome /\ BadNameOutcome)
    /\ [][JoinStep => \A s \in Sockets :
                          /\ socks'[s].state = socks[s].state
                          /\ socks'[s].closeCode = socks[s].closeCode]_vars

\* one connection is in its room and a join of another has just been denied
C7_Witness ==
    /\ hubIn.kind = "joined"
    /\ <<hubIn.sock, hubIn.room>> \notin granted
    /\ socks[hubIn.sock].state = "open"
    /\ \E s \in Sockets : s # hubIn.sock /\ socks[s].rooms # {}

\* C8: a connection whose transport has closed is a member of no room and
\* is absent from the clients registry
C8_ClosedConnectionForgotten ==
    \A s \in Sockets :
        socks[s].state = "closed" => (~InSomeRoom(s) /\ ~InRegistry(s))

\* the sockets broadcastToRoom must reach: the members of the room that are
\* open and not the excluded one
Writable(s) == socks[s].state = "open"
Members(roomName) == {s \in Sockets : s \in rooms[roomName].set /\ rooms[roomName].has}

\* C9: a broadcast sends the event exactly once to each member of the room
\* that is writable and not the excluded connection, and nothing to any
\* other; with no members nothing is sent
C9_BroadcastReachesWritableMembers ==
    hubIn.kind = "broadcast" =>
        \A s \in Sockets :
            IF s \in Members(hubIn.room) /\ Writable(s) /\ s # hubIn.exclude
              THEN /\ Len(wsSent[s]) = 1
                   /\ wsSent[s][1].type = "message:new"
                   /\ wsSent[s][1].msgId = hubIn.msgId
              ELSE wsSent[s] = <<>>

\* a broadcast to a room with a writable member, which got the event, and a
\* member whose transport is closing, which got nothing
C9_Witness ==
    /\ hubIn.kind = "broadcast"
    /\ \E s, t \in Members(hubIn.room) :
          /\ Writable(s) /\ Len(wsSent[s]) = 1
          /\ socks[t].state = "closing" /\ wsSent[t] = <<>>

\* the step handles a leave frame that names a room
LeaveStep ==
    /\ frames' # frames
    /\ hubIn'.kind = "frame" /\ hubIn'.type = "leave"
    /\ hubIn'.handled /\ hubIn'.room # EmptyStr

\* C25: a leave frame takes the connection out of the room's members and
\* the room out of the connection's rooms, member or not; room:left is sent
\* to the connection (delivered while its transport is open) and to nobody
\* else; the other connections, the other rooms and the other members of
\* the room stay as they were; the connection is then no target of a
\* broadcast to the room, and a broadcast sends only to members of its room
C25_LeaveRemovesFromRoom ==
    /\ [][LeaveStep =>
            LET s == hubIn'.sock
                r == hubIn'.room
            IN  /\ socks' = [socks EXCEPT ![s].rooms = socks[s].rooms \ {r}]
                /\ \A q \in RoomNames :
                       Members(q)' = IF q = r THEN Members(q) \ {s} ELSE Members(q)
                /\ clients' = clients
                /\ wsSent' = [t \in Sockets |->
                                 IF t = s /\ socks[s].state = "open"
                                   THEN <<Event("room:left", "", r, NoId)>>
                                   ELSE <<>>]]_vars
    /\ []((hubIn.kind = "frame" /\ hubIn.type = "leave" /\ hubIn.handled
              /\ hubIn.room # EmptyStr) =>
                 hubIn.sock \notin BroadcastTargets(hubIn.room, NoSocket))
    /\ [][hubIn'.kind = "broadcast" =>
            \A s \in Sockets : wsSent'[s] # <<>> => s \in Members(hubIn'.room)]_vars

\* a connection that had joined a room has left it and was told so
C25_Witness ==
    /\ hubIn.kind = "frame" /\ hubIn.type = "leave" /\ hubIn.handled
    /\ hubIn.room # EmptyStr
    /\ <<hubIn.sock, hubIn.room>> \in granted
    /\ joins = {}
    /\ hubIn.sock \notin Members(hubIn.room)
    /\ hubIn.room \notin socks[hubIn.sock].rooms
    /\ wsSent[hubIn.sock] = <<Event("room:left", "", hubIn.room, NoId)>>

\* the step handles a frame that is not JSON, has an unknown type, or is a
\* join or leave without a room, on an open authenticated connection
MalformedStep ==
    /\ frames' # frames
    /\ hubIn'.kind = "frame" /\ hubIn'.handled
    /\ hubIn'.type \in {"malformed", "unknown", "join", "leave"}
    /\ hubIn'.room = EmptyStr
    /\ socks[hubIn'.sock].state = "open" /\ socks[hubIn'.sock].userId # 0

\* the step resumes a join whose conversation lookup found nothing
DeniedStep ==
    /\ joins' # joins
    /\ hubIn'.kind = "joined" /\ ~hubIn'.found
    /\ socks[hubIn'.sock].state = "open"

\* C26: on an open authenticated connection every malformed frame and every
\* denied join sends one error event to that connection, leaves the
\* connection open and changes no membership
C26_MalformedFramesAnswered ==
    [][(MalformedStep \/ DeniedStep) =>
          /\ Len(wsSent'[hubIn'.sock]) = 1
          /\ wsSent'[hubIn'.sock][1].type = "error"
          /\ socks' = socks
          /\ rooms' = rooms
          /\ clients' = clients]_vars

----------------------------------------------------------------------------
(* Properties of the message ledger *)

PaidFor(signature) ==
    CASE signature \in {"A1", "A2"} -> ConvIdA
      [] signature = "B1"           -> ConvIdB
      [] OTHER                      -> NoId
PayerOf(signature) ==
    CASE signature \in {"A1", "B1"} -> WalletOf(1)
      [] signature = "A2"           -> WalletOf(2)
      [] OTHER                      -> ""

\* request p pays with a transaction whose memo names another conversation
CrossPost(p) ==
    /\ variant = "paid"
    /\ posts[p].pc # "idle"
    /\ PaidFor(posts[p].sig) \notin {NoId, posts[p].conv}

C15_UsedSignatureRejected ==
    /\ [](variant = "paid" =>
            \A p \in PostIds : posts[p].usedBefore =>
                /\ posts[p].pc \notin {"getTransaction", "create", "update"}
                /\ posts[p].msgId = NoId
                /\ posts[p].pc = "done" =>
                      /\ posts[p].status \in {400, 404}
                      /\ (posts[p].contentOk
                             /\ getUserConversation(posts[p].conv, posts[p].user) # {})
                            => posts[p].error = "Transaction already used")
    /\ [][\A p \in PostIds :
              (variant = "paid" /\ posts'[p].usedBefore /\ posts'[p] # posts[p]) =>
                  /\ messages' = messages
                  /\ conversations' = conversations
                  /\ wsSent' = NothingSent]_vars

\* a request of another user with the signature of a stored Message was
\* rejected as a duplicate
C15_Witness ==
    \E p, q \in PostIds :
        /\ variant = "paid"
        /\ posts[q].status = 201
        /\ posts[p].usedBefore /\ posts[p].sig = posts[q].sig
        /\ posts[p].user # posts[q].user
        /\ posts[p].pc = "done" /\ posts[p].error = "Transaction already used"

\* the statement without the order of the checks: whatever its content and
\* its target conversation, the post is rejected as a duplicate
C15_Original ==
    variant = "paid" =>
        \A p \in PostIds : (posts[p].usedBefore /\ posts[p].pc = "done") =>
            /\ posts[p].status = 400
            /\ posts[p].error = "Transaction already used"

PostsInFlight == {p \in PostIds : posts[p].pc \notin {"idle", "done"}}

\* C17: an accepted post has its Message persisted before the conversation
\* is updated and before the event is sent: the step that answers 201 leaves
\* lastMessageAt at or after the Message's sentAt and sends message:new to
\* every writable member of the room; no message:new names a Message that
\* is not stored; and when no post is in flight the lastMessageAt of a
\* conversation is not earlier than the sentAt of any of its Messages
C17_AcceptedPostEffects ==
    /\ [](\A p \in PostIds : (posts[p].pc = "update" \/ posts[p].status = 201) =>
              \E m \in messages : /\ m.id = posts[p].msgId
                                  /\ m.conversationId = posts[p].conv
                                  /\ m.senderId = posts[p].user)
    /\ [](\A s \in Sockets : \A i \in 1..Len(wsSent[s]) :
              wsSent[s][i].type = "message:new" =>
                  \E m \in messages : m.id = wsSent[s][i].msgId)
    /\ [][\A p \in PostIds : (posts[p].pc = "update" /\ posts'[p].status = 201) =>
              /\ \A c \in conversations', m \in messages :
                     (c.id = posts[p].conv /\ m.id = posts[p].msgId) =>
                         c.lastMessageAt >= m.sentAt
              /\ \A s \in Members(RoomOf(posts[p].conv)) : Writable(s) =>
                     wsSent'[s] = <<Event("message:new", "", RoomOf(posts[p].conv),
                                          posts[p].msgId)>>]_vars
    /\ [](PostsInFlight = {} =>
              \A c \in conversations, m \in messages :
                  m.conversationId = c.id => c.lastMessageAt >= m.sentAt)

C14_OnlyActiveParticipantsPost ==
    /\ [](\A m \in messages : \E c \in conversations, n \in matches :
              /\ c.id = m.conversationId /\ n.id = c.matchId
              /\ m.senderId \in {n.userAId, n.userBId})
    /\ [][\A m \in messages' \ messages :
              getUserConversation(m.conversationId, m.senderId) # {}]_vars

----------------------------------------------------------------------------
(* Properties of paging *)

Occurrences(seq, x) == Cardinality({i \in 1..Len(seq) : seq[i] = x})

\* C10: when the client has paged to the end with pages of at least one
\* message, every message that existed before its first call has been
\* returned exactly once
C10_PagingReturnsEachOnce ==
    (pager.pc = "done" /\ pager.status = 200 /\ LimitOf(pager.limit) >= 1) =>
        \A id \in pager.snapshot : Occurrences(pager.seen, id) = 1

Range(seq) == {seq[i] : i \in 1..Len(seq)}

\* the messages listMessages(C, cursor, limit) may choose from: those of C,
\* strictly older than the cursor when there is one
Eligible(conv, cursor) ==
    {m \in messages :
        /\ m.conversationId = conv
        /\ cursor = EmptyStr \/ m.sentAt < ParseDate(cursor)}

\* the answer in pager' is the one described for the call made in pager
PageAsDescribed ==
    LET page == pager'.page
        limit == LimitOf(pager.limit)
        eligible == Eligible(pager.conv, pager.cursor)
    IN  /\ Range(page) \subseteq eligible
        /\ \A i, j \in 1..Len(page) : i < j =>
               (page[i] # page[j] /\ page[i].sentAt <= page[j].sentAt)
        /\ Len(page) = Min(limit, Cardinality(eligible))
        /\ \A r \in eligible \ Range(page) : \A i \in 1..Len(page) :
               r.sentAt <= page[i].sentAt
        /\ IF Len(page) = limit
             THEN /\ pager'.nextCursor.kind = "date"
                  /\ Len(page) >= 1
                  /\ pager'.nextCursor.value = DateToJSON(page[1].sentAt)
             ELSE pager'.nextCursor = NullCursor

PageAnswered == pager.pc = "findMany" /\ pager'.pc # "findMany"

\* C18: for a limit of at least 1, a call returns only messages of the
\* conversation strictly older than the cursor (all of them without cursor),
\* the newest `limit` of these, oldest first; nextCursor is the sentAt of
\* the oldest returned message when the page holds exactly `limit` messages
\* and null otherwise
C18_PageContents ==
    [][(PageAnswered /\ LimitOf(pager.limit) >= 1) => PageAsDescribed]_vars

\* a second page, asked with the cursor of the first, came back full while
\* a newer message and a message of another conversation were stored
C18_Witness ==
    /\ pager.status = 200
    /\ pager.asked # EmptyStr
    /\ Len(pager.page) = LimitOf(pager.limit)
    /\ pager.nextCursor.kind = "date"
    /\ \E m \in messages : m.conversationId = pager.conv
                              /\ m.sentAt >= ParseDate(pager.asked)
    /\ \E m \in messages : m.conversationId # pager.conv

\* the statement for every limit the endpoint accepts, 0 included
C18_Original ==
    [][PageAnswered => PageAsDescribed]_vars

----------------------------------------------------------------------------
(* Properties of the web client *)

\* the step schedules a reconnect
Scheduled == cli'.sinceOpen = cli.sinceOpen + 1

\* the step is the close event of a socket
CloseStep ==
    /\ cli'.last.kind = "close"
    /\ cli.socks[cli'.last.sock].state # "none"
    /\ cli'.socks[cli'.last.sock].state = "none"

Quiet ==
    /\ ~cli.reconnectTimeoutRef.pending
    /\ cli.stray = 0
    /\ \A k \in SockIds : cli.socks[k].state \notin {"connecting", "closing"}

\* C27: the n-th reconnect scheduled since a connection last opened (n from
\* 0) waits min(1000 * 2^n, 30000) ms; at most 5 are scheduled without a
\* connection opening in between; the attempt counter goes down only in
\* onopen, to 0; and the retrying comes to an end: from some point on no
\* timer is pending and no socket is connecting or closing
C27_BoundedBackoff ==
    /\ [][Scheduled =>
            /\ cli.sinceOpen < 5
            /\ cli'.reconnectTimeoutRef =
                   [pending |-> TRUE,
                    delay |-> Min(1000 * 2^(cli.sinceOpen), 30000)]]_vars
    /\ [](cli.sinceOpen <= 5)
    /\ [][cli'.reconnectAttempts < cli.reconnectAttempts =>
            (cli'.last.kind = "open" /\ cli'.reconnectAttempts = 0)]_vars
    /\ <>[]Quiet

\* after a connection had opened and was lost, five reconnects failed and
\* the client gave up
C27_Witness ==
    /\ cli.opens >= 1
    /\ cli.sinceOpen = 5
    /\ cli.reconnectAttempts = 5
    /\ cli.last.kind = "close" /\ cli.last.code = 1006
    /\ Quiet
    /\ \A k \in SockIds : cli.socks[k].state = "none"

\* the step delivers `authenticated` to an open socket
AuthenticatedStep ==
    /\ cli'.last.kind = "authenticated"
    /\ cli.socks[cli'.last.sock].state = "open"
    /\ Len(cli'.socks[cli'.last.sock].inbox) < Len(cli.socks[cli'.last.sock].inbox)

Rejoined == {f.room : f \in {g \in cli'.out : g.type = "join"}}

\* C28: when `authenticated` arrives on a connection the client sends, on
\* that connection, a join for every tracked room and nothing else; a room
\* the page joined and has not left is among them, a room the page has left
\* is not
C28_RejoinsTrackedRooms ==
    [][AuthenticatedStep =>
          /\ \A f \in cli'.out : f.type = "join" /\ f.sock = cli'.last.sock
          /\ Rejoined = cli.joinedRooms
          /\ \A r \in ClientRooms :
                 /\ cli.intent[r] = "joined" => r \in Rejoined
                 /\ cli.intent[r] = "left" => r \notin Rejoined]_vars

\* C29: the close event of a socket schedules no reconnect when its code is
\* 1000, 4001 or 4002; it schedules one when the code is another one, the
\* client did not close the socket itself and attempts remain; and it
\* schedules none when the client closed the socket in disconnect() or
\* replaced it in connect()
C29_ReconnectOnlyAfterAbnormalClose ==
    [][CloseStep =>
          /\ cli'.last.code \in {1000, 4001, 4002} => ~Scheduled
          /\ (cli'.last.code \notin {1000, 4001, 4002}
                 /\ cli'.last.closedBy = "none"
                 /\ cli.reconnectAttempts < 5) => Scheduled
          /\ cli'.last.closedBy \in {"disconnect", "replace"} => ~Scheduled]_vars

\* C30: the view never holds two entries with the same id, and every
\* message the page has appended from a message:new event or from the answer
\* to a send is still in the view, whatever polls were answered since
C30_ViewMergesById ==
    /\ \A i, j \in 1..Len(chat.view) : chat.view[i] = chat.view[j] => i = j
    /\ chat.shown \subseteq Range(chat.view)

----------------------------------------------------------------------------
(* Further properties of the realtime hub *)

\* the step runs handleDisconnect for a connection
DisconnectStep ==
    /\ hubIn'.kind \in {"close", "error"}
    /\ socks'[hubIn'.sock].state # socks[hubIn'.sock].state
    /\ socks[hubIn'.sock].handlers

\* C36: a connection in the member set of a room has the room in its own
\* room set; so handleDisconnect, which walks the connection's own rooms,
\* leaves the connection in no member set; and the room map holds no empty
\* member set
C36_MembershipMirrored ==
    /\ [](\A s \in Sockets, r \in RoomNames :
             s \in Members(r) => r \in socks[s].rooms)
    /\ [](\A r \in RoomNames : rooms[r].has => rooms[r].set # {})
    /\ [][DisconnectStep =>
            \A r \in RoomNames : hubIn'.sock \notin Members(r)']_vars

\* a connection that was a member of a room has closed and is in no member
\* set, and another connection is still a member of a room
C36_Witness ==
    /\ hubIn.kind = "close"
    /\ socks[hubIn.sock].handlers
    /\ socks[hubIn.sock].rooms # {}
    /\ \A r \in RoomNames : hubIn.sock \notin Members(r)
    /\ \E s \in Sockets, r \in RoomNames : s \in Members(r)

\* C37: when a join frame and then a leave frame for the same room have
\* both been processed on a connection, the connection is no member of the
\* room and the last room event sent to it is room:left
C37_FramesTakeEffectInOrder ==
    (/\ hubIn.kind = "joined"
     /\ hubIn.left
     /\ \A j \in joins : ~(j.sock = hubIn.sock /\ j.room = hubIn.room))
        => /\ hubIn.sock \notin Members(hubIn.room)
           /\ \A i \in 1..Len(wsSent[hubIn.sock]) :
                 wsSent[hubIn.sock][i].type # "room:joined"

----------------------------------------------------------------------------
(* Properties of the login challenges *)

\* the step is a call to verifyChallenge
VerifyStep == chal'.last.kind = "verify" /\ chal' # chal

\* C31: verifyChallenge returns valid at most once for a nonce; only for a
\* nonce that was issued, not after its expiresAt, and only for the wallet
\* address it was issued to; a call that fails because the wallet is
\* another one leaves the store as it was
C31_ChallengeSingleUse ==
    /\ [](\A n \in Nonces : chal.valids[n] <= 1)
    /\ [][(VerifyStep /\ chal'.last.valid) =>
            LET n == chal'.last.nonce
            IN  /\ n <= chal.nonces
                /\ chal.clock <= chal.issued[n].expiresAt
                /\ chal'.last.wallet = chal.issued[n].wallet]_vars
    /\ [][(VerifyStep /\ ~chal'.last.valid
             /\ chal.challenges[chal'.last.nonce].has
             /\ chal.clock <= chal.issued[chal'.last.nonce].expiresAt) =>
            chal'.challenges = chal.challenges]_vars

----------------------------------------------------------------------------
(* Further properties of the payment checks *)

\* the native transfer instructions of the transaction examined
TransferAt(i) ==
    /\ vIn.tx.instructions[i].parsed
    /\ vIn.tx.instructions[i].program = "system"
    /\ vIn.tx.instructions[i].type = "transfer"
Transfers == {i \in 1..Len(vIn.tx.instructions) : TransferAt(i)}

\* C38: the payment is accepted only if one transfer instruction of the
\* transaction has the expected sender as source, the platform wallet as
\* destination and at least the minimum fee as lamports; the sender, the
\* recipient and the amount that are checked come from one and the same
\* transfer instruction, and the amount reported for storing is its amount
C38_OneTransferValidated ==
    Examined =>
        /\ Transfers # {} =>
              \E i \in Transfers :
                 /\ vOut.sender = vIn.tx.instructions[i].source
                 /\ vOut.recipient = vIn.tx.instructions[i].destination
                 /\ vOut.amount = vIn.tx.instructions[i].lamports
        /\ vOut.valid =>
              \E i \in Transfers :
                 /\ vIn.tx.instructions[i].source = vIn.expectedSender
                 /\ vIn.tx.instructions[i].destination = PlatformWallet
                 /\ vIn.tx.instructions[i].lamports >= vIn.minimum
                 /\ vOut.amount = vIn.tx.instructions[i].lamports

\* a transaction with two transfers whose sources and destinations differ
\* was examined and refused, although its first transfer has the expected
\* source and its second the platform wallet as destination
C38_Witness ==
    /\ Examined
    /\ Transfers = {1, 2}
    /\ vIn.tx.instructions[1].source = vIn.expectedSender
    /\ vIn.tx.instructions[1].destination # PlatformWallet
    /\ vIn.tx.instructions[2].source # vIn.expectedSender
    /\ vIn.tx.instructions[2].destination = PlatformWallet
    /\ vIn.tx.instructions[2].lamports >= vIn.minimum
    /\ ~vOut.valid

----------------------------------------------------------------------------
(* Further properties of contact, unmatch and block *)

\* the step answers a contact request with a conversation id
ContactAnswered(o) ==
    /\ ops[o].pc # "done" /\ ops'[o].pc = "done"
    /\ ops'[o].kind = "contact"
    /\ ops'[o].status \in {200, 201}

\* C39: when contact answers with a conversation id, the requester passes
\* the participant check for that conversation right after the call (its
\* Match is active and the requester is userA or userB), for a new Match
\* and for an existing one; and no pair of users has two Match rows
C39_ContactConversationUsable ==
    /\ [][\A o \in OpIds : ContactAnswered(o) =>
            \E c \in conversations', m \in matches' :
               /\ c.id = ops'[o].conversationId
               /\ m.id = c.matchId
               /\ m.isActive
               /\ ops'[o].user \in {m.userAId, m.userBId}]_vars
    /\ [](\A a, b \in Users : Cardinality(MatchRows(a, b)) <= 1)

----------------------------------------------------------------------------
(* Properties of the read receipts *)

\* C34: a message is created with readAt null; readAt becomes non-null only
\* in the updateMany of a read request for the message's conversation, made
\* by a participant who is not the message's sender; and a non-null readAt
\* is never changed again
C34_ReadAtSetOnce ==
    /\ [][Len(reads'.msgs) > Len(reads.msgs) =>
            reads'.msgs[Len(reads'.msgs)].readAt = 0]_vars
    /\ [][\A i \in 1..Len(reads.msgs) :
            /\ reads.msgs[i].readAt # 0 => reads'.msgs[i] = reads.msgs[i]
            /\ (reads.msgs[i].readAt = 0 /\ reads'.msgs[i].readAt # 0) =>
                  /\ reads'.last.kind = "update"
                  /\ reads.marks[reads'.last.mark].conv = reads.msgs[i].conversationId
                  /\ reads.marks[reads'.last.mark].user # reads.msgs[i].senderId
                  /\ reads.marks[reads'.last.mark].user
                        \in Participants(reads.msgs[i].conversationId)
                  /\ reads'.msgs[i].readAt = reads.clock]_vars

\* a message was read, and a later read request of the same reader, made
\* when the clock had moved on and the reader's own message was unread, left
\* both as they were
C34_Witness ==
    /\ reads.last.kind = "update"
    /\ \E i, j \in 1..Len(reads.msgs) :
          /\ reads.msgs[i].conversationId = reads.marks[reads.last.mark].conv
          /\ reads.msgs[i].senderId # reads.marks[reads.last.mark].user
          /\ reads.msgs[i].readAt # 0
          /\ reads.msgs[i].readAt < reads.clock
          /\ reads.msgs[j].conversationId = reads.msgs[i].conversationId
          /\ reads.msgs[j].senderId = reads.marks[reads.last.mark].user
          /\ reads.msgs[j].readAt = 0

----------------------------------------------------------------------------
(* Properties of the account verification *)

\* the handler of confirm request c reads the user row
ReadsUser(c) ==
    verif.confirms[c].pc = "findUser" /\ verif'.confirms[c].pc # "findUser"

\* C32: a payment-details or confirm request that finds the account verified
\* is answered 400 'User already verified' and changes no user row; for an
\* unverified account payment-details answers the platform wallet, the
\* configured fee and the memo VERIFY:{userId}; and isVerified, once true,
\* stays true
C32_VerifiedAccountRefused ==
    /\ [][\A u \in Payers : verif.users[u].isVerified => verif'.users[u].isVerified]_vars
    /\ [][verif'.details # verif.details => verif'.users = verif.users]_vars
    /\ [](verif.details.status # 0 =>
            IF verif.details.sawVerified
              THEN /\ verif.details.status = 400
                   /\ verif.details.error = "User already verified"
                   /\ verif.details.recipientWallet = NULL
              ELSE /\ verif.details.status = 200
                   /\ verif.details.recipientWallet = PlatformWallet
                   /\ verif.details.amountLamports = VerificationFeeLamports
                   /\ verif.details.memo =
                          VerifyPrefix \o UserIdStr(verif.details.user))
    /\ [][\A c \in ConfirmIds :
            (ReadsUser(c) /\ verif.users[verif.confirms[c].user].isVerified) =>
                /\ verif'.confirms[c].pc = "done"
                /\ verif'.confirms[c].status = 400
                /\ verif'.confirms[c].error = "User already verified"
                /\ verif'.users = verif.users]_vars
    /\ [](\A c \in ConfirmIds :
            verif.confirms[c].error = "User already verified" =>
                ~verif.confirms[c].wrote)

\* an account was verified, and afterwards both a payment-details request
\* and a confirm request for it were refused
C32_Witness ==
    /\ verif.details.status = 400
    /\ verif.users[verif.details.user].isVerified
    /\ \E c \in ConfirmIds :
          /\ verif.confirms[c].error = "User already verified"
          /\ verif.confirms[c].user = verif.details.user

\* C33: no signature is ever stored as verificationTx of two accounts; a
\* signature is stored for an account only if the transaction was sent from
\* that account's wallet and its memo names that account; and a confirm
\* request with another transaction ends with 400 and without a write
C33_OneAccountPerTransaction ==
    /\ \A sig \in PaymentTxs :
          /\ Cardinality(FindVerificationTx(verif.users, sig)) <= 1
          /\ Cardinality({u \in Payers : <<u, sig>> \in verif.written}) <= 1
    /\ \A w \in verif.written :
          Ledger(w[2]).payer = w[1] /\ Ledger(w[2]).memoFor = w[1]
    /\ \A c \in ConfirmIds :
          (/\ verif.confirms[c].pc = "done"
           /\ verif.confirms[c].sig \in PaymentTxs
           /\ \/ Ledger(verif.confirms[c].sig).payer # verif.confirms[c].user
              \/ Ledger(verif.confirms[c].sig).memoFor # verif.confirms[c].user)
          => verif.confirms[c].status = 400 /\ ~verif.confirms[c].wrote
    /\ \A u \in Payers :
          verif.users[u].isVerified <=>
              \E sig \in PaymentTxs : <<u, sig>> \in verif.written

\* two requests confirmed with the same signature at the same time (neither
\* found it used): the payer's account was verified, the other request failed
\* the verifier and its account is unverified
C33_Witness ==
    \E c, d \in ConfirmIds :
        /\ verif.confirms[c].sig = verif.confirms[d].sig
        /\ verif.confirms[c].user # verif.confirms[d].user
        /\ verif.confirms[c].status = 200
        /\ verif.users[verif.confirms[c].user].verificationTx = verif.confirms[c].sig
        /\ verif.confirms[d].error = "Transaction verification failed"
        /\ ~verif.users[verif.confirms[d].user].isVerified

----------------------------------------------------------------------------
(* Properties of the rate limiting *)

\* the limit a route is said to be under: swipes and discovery the discovery
\* limit, confirm the verification limit, message posts the messaging limit,
\* login the auth limit, everything else the general limit
SaidConfig(route) ==
    CASE route \in {"POST /discovery/like/:userId", "POST /discovery/pass/:userId",
                    "GET /discovery"}                      -> "discovery"
      [] route = "POST /verification/confirm"              -> "verification"
      [] route = "POST /conversations/:id/messages"        -> "messaging"
      [] route \in {"POST /auth/challenge", "POST /auth/verify"} -> "auth"
      [] OTHER                                             -> "general"

RECURSIVE SeenIn(_)
\* the requests a set of routes received in this window
SeenIn(routes) ==
    IF routes = {} THEN 0
    ELSE LET route == CHOOSE x \in routes : TRUE
         IN  limiter.seen[route] + SeenIn(routes \ {route})

\* the requests received in this window by the routes said to be under the
\* same limit as the route
SeenWith(route) == SeenIn({x \in Routes : SaidConfig(x) = SaidConfig(route)})

\* C35: a request beyond the said limit of its route, counting the requests
\* of that route alone, is rejected with a retry-after hint and the handler
\* does not run; a request within the said limit, counting the requests of
\* all routes said to be under the same limit, is handled
C35_EachPathItsOwnBucket ==
    limiter.last.route # NULL =>
        /\ limiter.last.nth > rateLimitConfigs(SaidConfig(limiter.last.route))
              => limiter.last.rejected
        /\ limiter.last.rejected =>
              limiter.last.retryAfter > 0 /\ ~limiter.last.handled
        /\ SeenWith(limiter.last.route) <= rateLimitConfigs(SaidConfig(limiter.last.route))
              => limiter.last.handled

============================================================================
